---- MODULE Spec2Model ----
(***************************************************************************)
(* Secure channel (handshake + box stream) and multiplex RPC (client and   *)
(* request dispatcher) of rust-ssb, as state machines.                     *)
(*                                                                         *)
(* The specifications of this module, one per subsystem:                   *)
(*   SpecBox       Encrypt sink -> byte pipe -> Decrypt source             *)
(*   SpecHS        client and server handshake over a duplex pipe          *)
(*   SpecClient    muxrpc Client: callers, outbound sink, response reader  *)
(*   SpecServer    muxrpc RequestDispatcher with its per-stream tasks      *)
(*   SpecStream    SpecServer for a peer that uses one request number      *)
(*   SpecEndpoint  Endpoint: the packet reader, packet sender and server   *)
(*                 tasks, their four channels and join()                   *)
(* The variables of the subsystems a specification does not move stay at   *)
(* their idle values.                                                      *)
(***************************************************************************)
EXTENDS Integers, Sequences, FiniteSets, TLC

VARIABLES
    \* ---- box stream ----
    enc_pc,        \* position of the task driving the Encrypt sink
    enc_nonce,     \* Encrypt.params.nonce
    enc_buffer,    \* Encrypt.buffer: encrypted bytes not yet written
    enc_sends,     \* number of payloads pushed so far
    enc_pending,   \* number of Pending results of writer.poll_close so far
    sent,          \* concatenation of all payloads pushed into the sink
    wire,          \* bytes in the pipe: written, not yet read
    wire_closed,   \* the writer has been closed
    partials,      \* number of partial reads/writes of the pipe so far
    dec_state,     \* Decrypt.state: ReadingHeader, ReadingBody or Closed
    dec_nonce,     \* Decrypt.params.nonce
    dec_size,      \* ReadBuffer.data.len()
    dec_data,      \* ReadBuffer.data[..filled]
    dec_tag,       \* auth_tag of DecryptState::ReadingBody
    dec_len,       \* length field of the last header opened (history)
    dec_out,       \* items the Decrypt stream has yielded
    dec_done,      \* poll_next has returned None
    enc_chunks,    \* the payloads of the packets encrypted so far (history)
    dec_count,     \* number of bytes the decryptor has read (history)
    tampered,      \* a byte of the pipe has been altered
    nonce0,        \* the nonce both Params started from (history)
    seals,         \* nonce and plain text of every seal and seal_detached
                   \* call of the encryptor so far (history)
    \* ---- handshake ----
    hs_cfg,        \* the keys and network identifiers of Client and Server
    c_pc,          \* position of Client::handshake
    c_st,          \* its locals: server_session_pk, authenticate, accept
    c_res,         \* its result: "none", "Ok" or the Error
    c_params,      \* the BoxStreamParams it returned
    s_pc,          \* position of Server::handshake
    s_st,          \* its locals: client_session_pk, authenticate, accept
    s_res,         \* its result
    s_params,      \* the BoxStreamParams it returned
    c2s,           \* messages written by the client, not yet read
    s2c,           \* messages written by the server, not yet read
    c_closed,      \* the client's end of the pipe is closed
    s_closed,      \* the server's end of the pipe is closed
    \* ---- muxrpc client ----
    next_request_number,     \* Client.next_request_number
    pending_async_requests,  \* Client.pending_async_requests: number -> channel
    client_streams,          \* Client.streams: number -> channel
    chans,                   \* the oneshot and mpsc channels created so far
    caller,                  \* position of the send_async / start_stream call
    call_result,             \* what the last call that ended returned
    inserted,                \* numbers that ever had a table entry (history)
    request_sink,            \* per number, the requests handed to
                             \* Client.request_sink in their order (history)
    request_sink_closed,     \* the outbound sink fails
    stream_handles,          \* what start_stream returned: source and StreamSink
    response_stream,         \* responses that arrived, not yet consumed
    response_stream_ended,   \* response_stream has ended
    responses_sent,          \* number of responses the peer has sent
    reader_pc,               \* position of the consume_responses task
    stream_log,              \* per number, the Stream messages the reader has
                             \* consumed since the request was sent (history)
    \* ---- muxrpc request dispatcher ----
    srv_pc,            \* server::run: "running", "failed" or "done"
    streams,           \* RequestDispatcher.streams: number -> stream
    handles,           \* the streams opened so far, with their two tasks
    tasks,             \* spawned tasks that are to send one response
    received,          \* per number, the requests handled (history)
    responses,         \* per number, the responses sent on response_sender
                       \* in their order (history)
    requests_handled,  \* number of requests handled so far
    service,           \* RequestDispatcher.service: the registered handlers
    \* ---- endpoint ----
    ep_reader,         \* packet_reader_task: "running", "Ok", "panicked" or
                       \* the NextPacketError it returned
    ep_consumer,       \* the client's consume_responses task: "running" or
                       \* "panicked"
    ep_server,         \* server_task: "running", "Ok" or "Err"
    ep_sender,         \* packet_sender_task: "running", "Ok" or "Err"
    ep_in_requests,    \* requests queued between reader and server::run
    ep_in_responses,   \* responses queued between reader and the client
    ep_out_requests,   \* requests queued between the client and the sender
    ep_out_responses,  \* responses queued between the server and the sender
    ep_handlers,       \* live tasks of the server that hold a clone of
                       \* out_responses_sender
    ep_client,         \* the Endpoint's client field has not been dropped
    ep_join,           \* join(): "idle", "pending", "Ok", "Err", "panicked",
                       \* or "dropped" when the Endpoint was dropped instead
    ep_join_error,     \* the task whose error join() returned, and the error
    ep_failed,         \* the tasks that returned an error, in the order in
                       \* which they did (history)
    ep_packets,        \* number of packets the reader has taken
    ep_calls,          \* number of requests made through client()
    \* ---- muxrpc header codec (header.rs) ----
    hdr_pc,            \* "start", "built", "received" or "parsed"
    hdr_header,        \* the Header that is built
    hdr_data,          \* the 9 bytes handed to Header::parse
    hdr_result,        \* what Header::parse returned
    \* ---- muxrpc packet stream (packet_stream.rs) ----
    ps_input,          \* the packets and the bytes after them that were
                       \* serialized into the source (history)
    ps_source,         \* the chunks the byte source has still to yield
    ps_buffer,         \* PacketStream.buffer
    ps_reader,         \* PacketStream.reader
    ps_out,            \* the results of poll_next so far
    ps_pc,             \* "polling", or "panicked"
    \* ---- increment_be on its own (cipher.rs) ----
    inc_bytes,         \* the buffer handed to increment_be
    inc_result,        \* the buffer after the call, <<>> before it
    \* ---- packet codec (packet.rs) ----
    pk_pc,             \* "start", "built", "received", "parsed" or
                       \* "parsed_received"
    pk_packet,         \* the Packet that is built
    pk_raw,            \* the header and the body handed to Packet::parse
    pk_result,         \* what Packet::parse returned
    \* ---- the client's request counter over all of u32 (client.rs) ----
    cnt_next,          \* Client.next_request_number, a U32
    cnt_pc,            \* "ready", or "panicked"
    cnt_issued,        \* the request numbers the calls have taken, in order
    cnt_pending,       \* the numbers with an entry in one of the maps
    cnt_wraps          \* 1 once the counter has wrapped to 0 (history)

boxVars == <<enc_pc, enc_nonce, enc_buffer, enc_sends, enc_pending, sent, wire,
             wire_closed, partials, dec_state, dec_nonce, dec_size, dec_data,
             dec_tag, dec_len, dec_out, dec_done, enc_chunks, dec_count,
             tampered, nonce0, seals>>

hsVars == <<hs_cfg, c_pc, c_st, c_res, c_params, s_pc, s_st, s_res, s_params,
            c2s, s2c, c_closed, s_closed>>

clientVars == <<next_request_number, pending_async_requests, client_streams,
                chans, caller, call_result, inserted, request_sink,
                request_sink_closed, stream_handles, response_stream,
                response_stream_ended, responses_sent, reader_pc, stream_log>>

serverVars == <<srv_pc, streams, handles, tasks, received, responses,
                requests_handled, service>>

endpointVars == <<ep_reader, ep_consumer, ep_server, ep_sender, ep_in_requests,
                  ep_in_responses, ep_out_requests, ep_out_responses,
                  ep_handlers, ep_client, ep_join, ep_join_error, ep_failed,
                  ep_packets, ep_calls>>

headerVars == <<hdr_pc, hdr_header, hdr_data, hdr_result>>

streamVars == <<ps_input, ps_source, ps_buffer, ps_reader, ps_out, ps_pc>>

incrementVars == <<inc_bytes, inc_result>>

codecVars == <<pk_pc, pk_packet, pk_raw, pk_result>>

counterVars == <<cnt_next, cnt_pc, cnt_issued, cnt_pending, cnt_wraps>>

packetVars == <<headerVars, streamVars, incrementVars, codecVars, counterVars>>

nonBoxVars == <<hsVars, clientVars, serverVars, endpointVars, packetVars>>

nonHsVars == <<boxVars, clientVars, serverVars, endpointVars, packetVars>>

nonClientVars == <<boxVars, hsVars, serverVars, endpointVars, packetVars>>

nonServerVars == <<boxVars, hsVars, clientVars, endpointVars, packetVars>>

nonEndpointVars == <<boxVars, hsVars, clientVars, serverVars, packetVars>>

nonPacketVars == <<boxVars, hsVars, clientVars, serverVars, endpointVars>>

vars == <<boxVars, hsVars, clientVars, serverVars, endpointVars, packetVars>>

(***************************************************************************)
(* Bounds of the model.                                                    *)
(***************************************************************************)
MaxRepolls == 2        \* polls of a PacketStream after it has ended
MaxSends == 2          \* payloads pushed into one Encrypt sink
MaxPartial == 1        \* partial reads/writes of the pipe per run
MaxClosePending == 1   \* Pending results of writer.poll_close per run

(***************************************************************************)
(* Byte strings are sequences over 0..255.                                 *)
(***************************************************************************)
Min(a, b) == IF a < b THEN a ELSE b

Zeros(n) == [i \in 1..n |-> 0]

Take(s, n) == SubSeq(s, 1, n)

Drop(s, n) == SubSeq(s, n + 1, Len(s))

(***************************************************************************)
(* ssb-box-stream/src/cipher.rs                                            *)
(***************************************************************************)
BOXED_HEADER_SIZE == 34
HEADER_SIZE == 18
MAX_PACKET_SIZE_BYTES == 4096
NONCEBYTES == 24
MACBYTES == BOXED_HEADER_SIZE - HEADER_SIZE

GOODBYE_PACKET == Zeros(HEADER_SIZE)

\* The key of the Params under test (crypto::secretbox::Key, abstract).
TheKey == 7

RECURSIVE increment_be_from(_, _)
\* The loop of increment_be, at byte i (1-based), going from the last byte
\* towards the first.
increment_be_from(bytes, i) ==
    IF i = 0 THEN bytes
    ELSE IF bytes[i] = 255
         THEN increment_be_from([bytes EXCEPT ![i] = 0], i - 1)
         ELSE [bytes EXCEPT ![i] = bytes[i] + 1]

\* Mutant of increment_be: no carry into the byte before.
increment_be_without_carry(bytes) ==
    [bytes EXCEPT ![Len(bytes)] = (bytes[Len(bytes)] + 1) % 256]

increment_be(bytes) == increment_be_from(bytes, Len(bytes))

nonce_increment_be(nonce) == increment_be(nonce)

(***************************************************************************)
(* crypto::secretbox (XSalsa20-Poly1305 of libsodium), idealised: the key  *)
(* stream and the tag are functions of the key and of the whole nonce, so  *)
(* that opening with another key or another nonce fails.                   *)
(***************************************************************************)
RECURSIVE NonceMix(_, _)
NonceMix(nonce, i) ==
    IF i = 0 THEN 0 ELSE (NonceMix(nonce, i - 1) * 3 + nonce[i] + 1) % 65521

KeyStream(nonce, key) == (NonceMix(nonce, Len(nonce)) + key) % 256

Tag(c, nonce, key) ==
    LET m == (NonceMix(nonce, Len(nonce)) + 31 * key) % 65536
        first == IF Len(c) = 0 THEN 0 ELSE c[1]
        last == IF Len(c) = 0 THEN 0 ELSE c[Len(c)]
    IN  <<m \div 256, m % 256, Len(c) \div 256, Len(c) % 256, first, last>>
            \o Zeros(MACBYTES - 6)

\* seal_detached: the cipher text (same length as the data) and the tag
XorStream(data, k) == [i \in 1..Len(data) |-> (data[i] + k) % 256]

seal_detached(data, nonce, key) ==
    LET c == XorStream(data, KeyStream(nonce, key))
    IN  [cipher |-> c, tag |-> Tag(c, nonce, key)]

\* open_detached: [ok |-> FALSE] models Err(())
open_detached(c, tag, nonce, key) ==
    IF Tag(c, nonce, key) = tag
    THEN [ok |-> TRUE, data |-> XorStream(c, 256 - KeyStream(nonce, key))]
    ELSE [ok |-> FALSE, data |-> <<>>]

seal(data, nonce, key) ==
    LET s == seal_detached(data, nonce, key) IN s.tag \o s.cipher

open(c, nonce, key) ==
    IF Len(c) < MACBYTES THEN [ok |-> FALSE, data |-> <<>>]
    ELSE open_detached(Drop(c, MACBYTES), Take(c, MACBYTES), nonce, key)

\* (payload.len() as u16).to_be_bytes()
u16_to_be_bytes(n) == <<(n % 65536) \div 256, n % 256>>

u16_from_be_bytes(b) == b[1] * 256 + b[2]

\* One call of seal or seal_detached: its nonce and its plain text
Sealed(nonce, plain) == [nonce |-> nonce, plain |-> plain]

\* Mutant of encrypt_one: the nonce is advanced once per packet.
encrypt_one_one_increment(nonce, payload) ==
    LET body_nonce == nonce_increment_be(nonce)
        body == seal_detached(payload, body_nonce, TheKey)
        header == u16_to_be_bytes(Len(payload)) \o body.tag
    IN  [bytes |-> seal(header, nonce, TheKey) \o body.cipher,
         nonce |-> body_nonce,
         seals |-> <<Sealed(body_nonce, payload), Sealed(nonce, header)>>]

\* Params::encrypt_one: the packet, the advanced nonce, and the two seals
\* made
encrypt_one(nonce, payload) ==
    LET body_len_bytes == u16_to_be_bytes(Len(payload))
        header_nonce == nonce
        body_nonce == nonce_increment_be(header_nonce)
        body == seal_detached(payload, body_nonce, TheKey)
        header == body_len_bytes \o body.tag
        boxed_header == seal(header, header_nonce, TheKey)
    IN  [bytes |-> boxed_header \o body.cipher,
         nonce |-> nonce_increment_be(body_nonce),
         seals |-> <<Sealed(body_nonce, payload), Sealed(header_nonce, header)>>]

RECURSIVE chunks(_)
\* data.chunks(MAX_PACKET_SIZE_BYTES), cipher.rs 45
chunks(data) ==
    IF Len(data) = 0 THEN <<>>
    ELSE LET n == Min(Len(data), MAX_PACKET_SIZE_BYTES)
         IN  <<Take(data, n)>> \o chunks(Drop(data, n))

\* Mutant of encrypt: the data is not cut into chunks.
encrypt_without_chunks(nonce, data) == encrypt_one(nonce, data)

RECURSIVE encrypt(_, _)
\* Params::encrypt: data.chunks(MAX_PACKET_SIZE_BYTES), one packet per chunk
encrypt(nonce, data) ==
    IF Len(data) = 0 THEN [bytes |-> <<>>, nonce |-> nonce, seals |-> <<>>]
    ELSE LET n == Min(Len(data), MAX_PACKET_SIZE_BYTES)
             one == encrypt_one(nonce, Take(data, n))
             rest == encrypt(one.nonce, Drop(data, n))
         IN  [bytes |-> one.bytes \o rest.bytes, nonce |-> rest.nonce,
              seals |-> one.seals \o rest.seals]

\* Params::goodbye: the nonce is not advanced
goodbye(nonce) == seal(GOODBYE_PACKET, nonce, TheKey)

decrypt_header_without_goodbye(nonce, boxed_header) ==
    LET header == open(boxed_header, nonce, TheKey)
    IN  IF ~header.ok
        THEN [res |-> "err", len |-> 0, tag |-> <<>>, nonce |-> nonce]
        ELSE [res |-> "packet",
              len |-> u16_from_be_bytes(Take(header.data, 2)),
              tag |-> Drop(header.data, 2),
              nonce |-> nonce_increment_be(nonce)]

\* Params::decrypt_header: res is "err" (Err(())), "goodbye" (Ok(None)) or
\* "packet" (Ok(Some((body_len, body_tag))))
decrypt_header(nonce, boxed_header) ==
    LET header == open(boxed_header, nonce, TheKey)
    IN  IF ~header.ok
        THEN [res |-> "err", len |-> 0, tag |-> <<>>, nonce |-> nonce]
        ELSE IF header.data = GOODBYE_PACKET
        THEN [res |-> "goodbye", len |-> 0, tag |-> <<>>, nonce |-> nonce]
        ELSE [res |-> "packet",
              len |-> u16_from_be_bytes(Take(header.data, 2)),
              tag |-> Drop(header.data, 2),
              nonce |-> nonce_increment_be(nonce)]

\* Params::decrypt_body
decrypt_body(nonce, tag, cipher_body) ==
    LET body == open_detached(cipher_body, tag, nonce, TheKey)
    IN  IF body.ok
        THEN [ok |-> TRUE, data |-> body.data, nonce |-> nonce_increment_be(nonce)]
        ELSE [ok |-> FALSE, data |-> <<>>, nonce |-> nonce]

(***************************************************************************)
(* Inputs of the box stream: payloads of the interesting lengths, and the  *)
(* nonce the two Params start from (Params::arbitrary: any nonce).         *)
(***************************************************************************)
PayloadLens ==
    {1, 2, MAX_PACKET_SIZE_BYTES - 1, MAX_PACKET_SIZE_BYTES, MAX_PACKET_SIZE_BYTES + 1}

\* The payload of length n pushed as the k-th item; bytes differ between
\* positions 4096 apart and between items.
Payload(n, k) == [i \in 1..n |-> (i * 3 + k) % 251]

NonceSeeds ==
    { Zeros(NONCEBYTES),
      Zeros(NONCEBYTES - 1) \o <<255>>,
      [i \in 1..NONCEBYTES |-> 255] }

\* The byte counts a poll_read/poll_write of at most m bytes may transfer.
IoSizes(m) ==
    {m} \cup (IF partials < MaxPartial
              THEN {n \in {1, m \div 2, m - 1} : 1 <= n /\ n < m}
              ELSE {})

Ok(data) == [ok |-> TRUE, data |-> data, err |-> "none"]

Err(e) == [ok |-> FALSE, data |-> <<>>, err |-> e]

\* The box stream of test::crypt_stream and test::early_termination starts
\* from BoxStart(NonceSeeds); in the other specifications it does not exist
\* (BoxStart of one nonce, never moved).
BoxStart(nonces) ==
    /\ enc_pc = "idle"
    /\ enc_nonce \in nonces
    /\ enc_buffer = <<>>
    /\ enc_sends = 0
    /\ enc_pending = 0
    /\ sent = <<>>
    /\ wire = <<>>
    /\ wire_closed = FALSE
    /\ partials = 0
    /\ dec_state = "ReadingHeader"
    /\ dec_nonce = enc_nonce
    /\ dec_size = BOXED_HEADER_SIZE
    /\ dec_data = <<>>
    /\ dec_tag = <<>>
    /\ dec_len = 0
    /\ dec_out = <<>>
    /\ dec_done = FALSE
    /\ enc_chunks = <<>>
    /\ dec_count = 0
    /\ tampered = FALSE
    /\ nonce0 = enc_nonce
    /\ seals = <<>>

decVars == <<dec_state, dec_nonce, dec_size, dec_data, dec_tag, dec_len, dec_out,
            dec_done, dec_count>>

(***************************************************************************)
(* ssb-box-stream/src/encrypt.rs                                           *)
(***************************************************************************)
\* writer.send(data): poll_ready has flushed the buffer, start_send encrypts
\* the data into the buffer; poll_flush follows (EncWrite, EncSendDone).
EncStartSend(len) ==
    /\ enc_pc = "idle"
    /\ enc_buffer = <<>>
    /\ enc_sends < MaxSends
    /\ LET data == Payload(len, enc_sends)
           e == encrypt(enc_nonce, data)
       IN  /\ enc_buffer' = e.bytes
           /\ enc_nonce' = e.nonce
           /\ sent' = sent \o data
           /\ enc_chunks' = enc_chunks \o chunks(data)
           /\ seals' = seals \o e.seals
    /\ enc_sends' = enc_sends + 1
    /\ enc_pc' = "send"
    /\ UNCHANGED <<enc_pending, wire, wire_closed, partials, decVars,
                   tampered, nonce0>>
    /\ UNCHANGED nonBoxVars

\* poll_flush_buffer: one writer.poll_write that accepts n bytes
EncWrite ==
    /\ enc_pc \in {"send", "close"}
    /\ enc_buffer # <<>>
    /\ \E n \in IoSizes(Len(enc_buffer)) :
          /\ wire' = wire \o Take(enc_buffer, n)
          /\ enc_buffer' = Drop(enc_buffer, n)
          /\ partials' = IF n < Len(enc_buffer) THEN partials + 1 ELSE partials
    /\ UNCHANGED <<enc_pc, enc_nonce, enc_sends, enc_pending, sent, wire_closed, decVars,
                   enc_chunks, tampered, nonce0, seals>>
    /\ UNCHANGED nonBoxVars

\* poll_flush: the buffer is written, the send future completes
EncSendDone ==
    /\ enc_pc = "send"
    /\ enc_buffer = <<>>
    /\ enc_pc' = "idle"
    /\ UNCHANGED <<enc_nonce, enc_buffer, enc_sends, enc_pending, sent, wire,
                   wire_closed, partials, decVars,
                   enc_chunks, tampered, nonce0, seals>>
    /\ UNCHANGED nonBoxVars

\* The head of poll_close: an empty buffer is filled with a goodbye packet.
PollCloseHead(buffer) == IF buffer = <<>> THEN goodbye(enc_nonce) ELSE buffer

\* the seal of the goodbye made by the head of poll_close
PollCloseSeals(buffer) ==
    IF buffer = <<>> THEN <<Sealed(enc_nonce, GOODBYE_PACKET)>> ELSE <<>>

\* writer.close(): the first poll of poll_close
EncClose ==
    /\ enc_pc = "idle"
    /\ enc_buffer' = PollCloseHead(enc_buffer)
    /\ seals' = seals \o PollCloseSeals(enc_buffer)
    /\ enc_pc' = "close"
    /\ UNCHANGED <<enc_nonce, enc_sends, enc_pending, sent, wire, wire_closed,
                   partials, decVars,
                   enc_chunks, tampered, nonce0>>
    /\ UNCHANGED nonBoxVars

\* poll_close: the buffer is written and writer.poll_close returns Pending;
\* the task is woken and polls poll_close again, from its head.
EncClosePending ==
    /\ enc_pc = "close"
    /\ enc_buffer = <<>>
    /\ enc_pending < MaxClosePending
    /\ enc_pending' = enc_pending + 1
    /\ enc_buffer' = PollCloseHead(enc_buffer)
    /\ seals' = seals \o PollCloseSeals(enc_buffer)
    /\ UNCHANGED <<enc_pc, enc_nonce, enc_sends, sent, wire, wire_closed,
                   partials, decVars,
                   enc_chunks, tampered, nonce0>>
    /\ UNCHANGED nonBoxVars

\* poll_close: the buffer is written and writer.poll_close returns Ready
EncCloseReady ==
    /\ enc_pc = "close"
    /\ enc_buffer = <<>>
    /\ wire_closed' = TRUE
    /\ enc_pc' = "closed"
    /\ UNCHANGED <<enc_nonce, enc_buffer, enc_sends, enc_pending, sent, wire,
                   partials, decVars,
                   enc_chunks, tampered, nonce0, seals>>
    /\ UNCHANGED nonBoxVars

\* The task that owns the sink ends without calling close (as the writer
\* task of test::early_termination): the writer is dropped, which closes
\* the pipe without a goodbye packet.
EncDrop ==
    /\ enc_pc = "idle"
    /\ wire_closed' = TRUE
    /\ enc_pc' = "dropped"
    /\ UNCHANGED <<enc_nonce, enc_buffer, enc_sends, enc_pending, sent, wire,
                   partials, decVars,
                   enc_chunks, tampered, nonce0, seals>>
    /\ UNCHANGED nonBoxVars

(***************************************************************************)
(* ssb-box-stream/src/decrypt.rs, ssb-box-stream/src/utils.rs              *)
(***************************************************************************)
encVars == <<enc_pc, enc_nonce, enc_buffer, enc_sends, enc_pending, sent, wire_closed,
            enc_chunks>>

\* DecryptState::init() and the ReadBuffer of a body
ReadingHeader ==
    /\ dec_state' = "ReadingHeader"
    /\ dec_size' = BOXED_HEADER_SIZE
    /\ dec_data' = <<>>
    /\ dec_tag' = <<>>

\* Decrypt::poll_next on an error item or None: the state becomes Closed
Closed ==
    /\ dec_state' = "Closed"
    /\ dec_size' = 0
    /\ dec_data' = <<>>
    /\ dec_tag' = <<>>

\* The test of poll_next_inner that rejects a header's length field
ExceedsMaxPacketSize(len) == len >= MAX_PACKET_SIZE_BYTES

\* poll_next_inner, ReadingHeader with the buffer filled by boxed_header
DecHeader(boxed_header) ==
    LET h == decrypt_header(dec_nonce, boxed_header)
    IN  CASE h.res = "err" ->
                /\ Closed
                /\ dec_out' = Append(dec_out, Err("UnboxHeader"))
                /\ UNCHANGED <<dec_nonce, dec_len, dec_done>>
          [] h.res = "goodbye" ->
                \* state Closed, and the loop returns None at once
                /\ Closed
                /\ dec_done' = TRUE
                /\ UNCHANGED <<dec_nonce, dec_len, dec_out>>
          [] h.res = "packet" /\ ExceedsMaxPacketSize(h.len) ->
                /\ Closed
                /\ dec_nonce' = h.nonce
                /\ dec_len' = h.len
                /\ dec_out' = Append(dec_out, Err("ExceededMaxPacketSize"))
                /\ UNCHANGED dec_done
          [] OTHER ->
                /\ dec_state' = "ReadingBody"
                /\ dec_size' = h.len
                /\ dec_data' = <<>>
                /\ dec_tag' = h.tag
                /\ dec_nonce' = h.nonce
                /\ dec_len' = h.len
                /\ UNCHANGED <<dec_out, dec_done>>

DecBody_stays_open(boxed_body) ==
    LET b == decrypt_body(dec_nonce, dec_tag, boxed_body)
    IN  /\ ReadingHeader
        /\ dec_out' = Append(dec_out, IF b.ok THEN Ok(b.data) ELSE Err("UnboxBody"))
        /\ dec_nonce' = IF b.ok THEN b.nonce ELSE dec_nonce
        /\ UNCHANGED <<dec_len, dec_done>>

\* poll_next_inner, ReadingBody with the buffer filled by boxed_body
DecBody(boxed_body) ==
    LET b == decrypt_body(dec_nonce, dec_tag, boxed_body)
    IN  IF b.ok
        THEN /\ ReadingHeader
             /\ dec_nonce' = b.nonce
             /\ dec_out' = Append(dec_out, Ok(b.data))
             /\ UNCHANGED <<dec_len, dec_done>>
        ELSE /\ Closed
             /\ dec_out' = Append(dec_out, Err("UnboxBody"))
             /\ UNCHANGED <<dec_nonce, dec_len, dec_done>>

\* ReadBuffer::poll_read: one reader.poll_read that returns n > 0 bytes; a
\* filled buffer is handed to the state machine within the same poll.
DecRead ==
    /\ dec_state \in {"ReadingHeader", "ReadingBody"}
    /\ wire # <<>>
    /\ \E n \in IoSizes(Min(dec_size - Len(dec_data), Len(wire))) :
          LET data == dec_data \o Take(wire, n)
          IN  /\ wire' = Drop(wire, n)
              /\ dec_count' = dec_count + n
              /\ partials' = IF n < Min(dec_size - Len(dec_data), Len(wire))
                             THEN partials + 1 ELSE partials
              /\ IF Len(data) < dec_size
                 THEN /\ dec_data' = data
                      /\ UNCHANGED <<dec_state, dec_nonce, dec_size, dec_tag,
                                     dec_len, dec_out, dec_done>>
                 ELSE IF dec_state = "ReadingHeader"
                      THEN DecHeader(data)
                      ELSE DecBody(data)
    /\ UNCHANGED <<encVars, tampered, nonce0, seals>>
    /\ UNCHANGED nonBoxVars

\* Mutant of DecReadEof: the end of the reader ends the source cleanly.
DecReadEof_clean_end ==
    /\ dec_state \in {"ReadingHeader", "ReadingBody"}
    /\ wire = <<>>
    /\ wire_closed
    /\ Closed
    /\ dec_done' = TRUE
    /\ UNCHANGED <<dec_nonce, dec_len, dec_out, dec_count, wire, partials,
                   encVars, tampered, nonce0, seals>>
    /\ UNCHANGED nonBoxVars

\* ReadBuffer::poll_read: reader.poll_read returns 0, the reader has ended
DecReadEof ==
    /\ dec_state \in {"ReadingHeader", "ReadingBody"}
    /\ wire = <<>>
    /\ wire_closed
    /\ Closed
    /\ dec_out' = Append(dec_out, Err("Io(UnexpectedEof)"))
    /\ UNCHANGED <<dec_nonce, dec_len, dec_done, dec_count, wire, partials,
                   encVars, tampered, nonce0, seals>>
    /\ UNCHANGED nonBoxVars

\* poll_next_inner in state Closed (after an error item): None
DecPollClosed ==
    /\ dec_state = "Closed"
    /\ ~dec_done
    /\ dec_done' = TRUE
    /\ UNCHANGED <<dec_state, dec_nonce, dec_size, dec_data, dec_tag, dec_len,
                   dec_out, dec_count, wire, partials, encVars, tampered, nonce0, seals>>
    /\ UNCHANGED nonBoxVars

(***************************************************************************)
(* Handshake: ssb-box-stream/src/handshake.rs.                             *)
(*                                                                         *)
(* Keys, tags, signatures and cipher texts are terms [op, n, a]: op names  *)
(* the constructor, n numbers an atom (a key generated by gen_keypair, a   *)
(* network identifier), a lists the arguments. The primitives of libsodium *)
(* are idealised: a box opens only with the key and nonce that sealed it,  *)
(* a signature verifies only with the public key of the signing secret key *)
(* on the signed bytes, hashes and MACs are injective, and                 *)
(* scalarmult(x, pk(y)) = scalarmult(y, pk(x)).                            *)
(***************************************************************************)
T(op, a) == [op |-> op, n |-> 0, a |-> a]

Atom(op, n) == [op |-> op, n |-> n, a |-> <<>>]

NoTerm == Atom("none", 0)

\* crypto::box_::gen_keypair: the public key of a Curve25519 secret key
box_pk(sk) == T("box_pk", <<sk>>)

\* crypto::sign::gen_keypair: identity n is the Ed25519 pair
\* (sign_pk(sign_sk(n)), sign_sk(n))
sign_sk(n) == Atom("sign_sk", n)

sign_pk(sk) == T("sign_pk", <<sk>>)

\* crypto::sign_to_box_sk, crypto::sign_to_box_pk: the converted pair is a
\* Curve25519 pair again, different from every generated one
sign_to_box_sk(sk) == T("to_box", <<sk>>)

sign_to_box_pk(pk) == box_pk(sign_to_box_sk(pk.a[1]))

\* An order on Curve25519 secret keys, to write the commutative scalarmult
\* of two of them in one way.
ScalarRank(sk) == IF sk.op = "to_box" THEN 100 + sk.a[1].n ELSE sk.n

\* crypto::share_key(public_key, secret_key)
share_key(public_key, secret_key) ==
    LET other == public_key.a[1]
    IN  IF ScalarRank(other) <= ScalarRank(secret_key)
        THEN T("shared", <<other, secret_key>>)
        ELSE T("shared", <<secret_key, other>>)

\* crypto::hash of the concatenation of parts
hash(parts) == T("sha256", parts)

\* crypto::auth::authenticate(data, key) and crypto::auth::verify
authenticate(data, key) == T("auth", <<key, data>>)

verify(tag, data, key) == tag = authenticate(data, key)

\* crypto::sign::sign_detached(msg, sk) and verify_detached(sig, msg, pk)
sign_detached(msg, sk) == T("sig", <<sk, T("cat", msg)>>)

verify_detached(sig, msg, pk) ==
    /\ sig.op = "sig"
    /\ pk.op = "sign_pk"
    /\ sig.a = <<pk.a[1], T("cat", msg)>>

\* crypto::secretbox::seal and open on terms; [ok |-> FALSE] models Err(())
box_seal(msg, nonce, key) == T("box", <<key, nonce, T("cat", msg)>>)

box_open(c, nonce, key) ==
    IF c.op = "box" /\ c.a[1] = key /\ c.a[2] = nonce
    THEN [ok |-> TRUE, msg |-> c.a[3].a]
    ELSE [ok |-> FALSE, msg |-> <<>>]

zero_nonce == Atom("zero_nonce", 0)

\* struct Endpoint
Endpoint(identity_sk, session_sk, network_identifier) ==
    [identity_pk |-> sign_pk(identity_sk),
     identity_sk |-> identity_sk,
     session_pk |-> box_pk(session_sk),
     session_sk |-> session_sk,
     network_identifier |-> network_identifier]

\* Endpoint::hello_message: tag || session_pk
hello_message(e) ==
    <<authenticate(e.session_pk, e.network_identifier), e.session_pk>>

\* Endpoint::hello_verify: the remote session key, or HelloMessageInvalid
hello_verify(e, msg) ==
    IF verify(msg[1], msg[2], e.network_identifier)
    THEN [ok |-> TRUE, pk |-> msg[2]]
    ELSE [ok |-> FALSE, pk |-> NoTerm]

\* Authenticate::for_client
Authenticate_for_client(client, server_identity_pk, server_session_pk) ==
    [ab |-> share_key(server_session_pk, client.session_sk),
     aB |-> share_key(sign_to_box_pk(server_identity_pk), client.session_sk),
     network_identifier |-> client.network_identifier,
     server_session_pk |-> server_session_pk]

\* Authenticate::for_server
Authenticate_for_server(server, client_session_pk) ==
    [ab |-> share_key(client_session_pk, server.session_sk),
     aB |-> share_key(client_session_pk, sign_to_box_sk(server.identity_sk)),
     network_identifier |-> server.network_identifier,
     server_session_pk |-> server.session_pk]

\* Mutant of Authenticate::message_key: the key forgets aB.
Authenticate_message_key_without_aB(auth) ==
    hash(<<auth.network_identifier, auth.ab>>)

\* Authenticate::message_key
Authenticate_message_key(auth) ==
    hash(<<auth.network_identifier, auth.ab, auth.aB>>)

\* Authenticate::signature_payload
Authenticate_signature_payload(auth, server_identity_pk) ==
    <<auth.network_identifier, server_identity_pk, hash(<<auth.ab>>)>>

\* authenticate_message
authenticate_message(client, server_identity_pk, auth) ==
    LET msg == Authenticate_signature_payload(auth, server_identity_pk)
        detached_signature_A == sign_detached(msg, client.identity_sk)
        key == Authenticate_message_key(auth)
    IN  <<box_seal(<<detached_signature_A, client.identity_pk>>, zero_nonce, key)>>

NoAuthenticate ==
    [ab |-> NoTerm, aB |-> NoTerm, network_identifier |-> NoTerm,
     server_session_pk |-> NoTerm]

NoAccept ==
    [authenticate |-> NoAuthenticate, Ab |-> NoTerm, detached_signature_A |-> NoTerm,
     client_identity_pk |-> NoTerm]

\* Accept::for_client
Accept_for_client(client, server_identity_pk, auth) ==
    [authenticate |-> auth,
     Ab |-> share_key(auth.server_session_pk, sign_to_box_sk(client.identity_sk)),
     detached_signature_A |->
        sign_detached(<<client.network_identifier, server_identity_pk,
                        hash(<<auth.ab>>)>>, client.identity_sk),
     client_identity_pk |-> client.identity_pk]

\* Accept::for_server
Accept_for_server(server, auth, client_identity_pk, detached_signature_A) ==
    [authenticate |-> auth,
     Ab |-> share_key(sign_to_box_pk(client_identity_pk), server.session_sk),
     detached_signature_A |-> detached_signature_A,
     client_identity_pk |-> client_identity_pk]

\* Authenticate::verify_and_accept: the Accept data or the Error
verify_and_accept(auth, server, client_authenticate_msg) ==
    LET key == Authenticate_message_key(auth)
        msg == box_open(client_authenticate_msg[1], zero_nonce, key)
    IN  IF ~msg.ok
        THEN [res |-> "AuthenticateMessageDecryptFailed", accept |-> NoAccept]
        ELSE LET detached_signature_A == msg.msg[1]
                 client_identity_pk == msg.msg[2]
                 signature_payload ==
                     Authenticate_signature_payload(auth, server.identity_pk)
             IN  IF verify_detached(detached_signature_A, signature_payload,
                                    client_identity_pk)
                 THEN [res |-> "Ok",
                       accept |-> Accept_for_server(server, auth, client_identity_pk,
                                                    detached_signature_A)]
                 ELSE [res |-> "AuthenticateSignatureInvalid", accept |-> NoAccept]

\* Accept::message_key
Accept_message_key(accept) ==
    hash(<<accept.authenticate.network_identifier, accept.authenticate.ab,
           accept.authenticate.aB, accept.Ab>>)

\* Accept::signature_payload
Accept_signature_payload(accept) ==
    <<accept.authenticate.network_identifier, accept.detached_signature_A,
      accept.client_identity_pk, hash(<<accept.authenticate.ab>>)>>

\* Mutant of accept_message: the server's identity key is sealed with the
\* signature.
accept_message_with_identity(server, accept) ==
    LET msg == Accept_signature_payload(accept)
        detached_signature_B == sign_detached(msg, server.identity_sk)
    IN  <<box_seal(<<detached_signature_B, server.identity_pk>>, zero_nonce,
                   Accept_message_key(accept))>>

\* accept_message
accept_message(server, accept) ==
    LET msg == Accept_signature_payload(accept)
        detached_signature_B == sign_detached(msg, server.identity_sk)
    IN  <<box_seal(<<detached_signature_B>>, zero_nonce, Accept_message_key(accept))>>

\* accept_message_verify: "Ok" or the Error
accept_message_verify(server_identity_pk, accept, cipher_msg) ==
    LET payload == box_open(cipher_msg[1], zero_nonce, Accept_message_key(accept))
    IN  IF ~payload.ok THEN "AcceptMessageDecryptFailed"
        ELSE IF verify_detached(payload.msg[1], Accept_signature_payload(accept),
                                server_identity_pk)
        THEN "Ok"
        ELSE "AcceptSignatureInvalid"

\* box_stream_nonce: the first NONCEBYTES bytes of the tag
box_stream_nonce(endpoint, receiver_key) ==
    T("first24", <<authenticate(receiver_key, endpoint.network_identifier)>>)

\* box_stream_key
box_stream_key(accept, receiver_identity_pk) ==
    hash(<<hash(<<Accept_message_key(accept)>>), receiver_identity_pk>>)

\* cipher::Params::new
Params(key, nonce) == [key |-> key, nonce |-> nonce]

\* Mutant of box_stream_params: the receive nonce is derived from the
\* remote session key.
box_stream_params_remote_nonce(local, accept, remote_identity_pk, remote_session_pk) ==
    [send |-> Params(box_stream_key(accept, remote_identity_pk),
                     box_stream_nonce(local, remote_session_pk)),
     receive |-> Params(box_stream_key(accept, local.identity_pk),
                        box_stream_nonce(local, remote_session_pk))]

\* box_stream_params
box_stream_params(local, accept, remote_identity_pk, remote_session_pk) ==
    [send |-> Params(box_stream_key(accept, remote_identity_pk),
                     box_stream_nonce(local, remote_session_pk)),
     receive |-> Params(box_stream_key(accept, local.identity_pk),
                        box_stream_nonce(local, local.session_pk))]

NoParams == [send |-> Params(NoTerm, NoTerm), receive |-> Params(NoTerm, NoTerm)]

\* The parties of test::run and test::client_with_invalid_server_key: two
\* server identities the client may be configured with, two network
\* identifiers, fresh session keys.
NetworkIds == {Atom("network", 1), Atom("network", 2)}

ServerIdentities == {sign_sk(1), sign_sk(2)}

ClientEndpoint == Endpoint(hs_cfg.client_sk, Atom("box_sk", 1), hs_cfg.net_c)

ServerEndpoint == Endpoint(hs_cfg.server_sk, Atom("box_sk", 2), hs_cfg.net_s)

NoLocals ==
    [remote_session_pk |-> NoTerm, authenticate |-> NoAuthenticate, accept |-> NoAccept]

ClientIdentities == {sign_sk(3), sign_sk(4)}

HsStart(nets, servers, clients) ==
    /\ hs_cfg \in [net_c : nets, net_s : nets,
                  server_sk : servers,
                  client_server_pk : {sign_pk(sk) : sk \in servers},
                  client_sk : clients]
    /\ c_pc = "write_hello"
    /\ c_st = NoLocals
    /\ c_res = "none"
    /\ c_params = NoParams
    /\ s_pc = "read_hello"
    /\ s_st = NoLocals
    /\ s_res = "none"
    /\ s_params = NoParams
    /\ c2s = <<>>
    /\ s2c = <<>>
    /\ c_closed = FALSE
    /\ s_closed = FALSE

cliHsVars == <<c_pc, c_st, c_res, c_params>>

srvHsVars == <<s_pc, s_st, s_res, s_params>>

\* Client::handshake returns Err(e)
CliFail(e) ==
    /\ c_res' = e
    /\ c_pc' = "done"
    /\ UNCHANGED <<c_st, c_params>>

\* Server::handshake returns Err(e)
SrvFail(e) ==
    /\ s_res' = e
    /\ s_pc' = "done"
    /\ UNCHANGED <<s_st, s_params>>

\* Client::handshake: stream.write_all(&endpoint.hello_message())
CliWriteHello ==
    /\ c_pc = "write_hello"
    /\ IF s_closed
       THEN CliFail("WriteFailed") /\ UNCHANGED c2s
       ELSE /\ c2s' = Append(c2s, hello_message(ClientEndpoint))
            /\ c_pc' = "read_hello"
            /\ UNCHANGED <<c_st, c_res, c_params>>
    /\ UNCHANGED <<hs_cfg, srvHsVars, s2c, c_closed, s_closed, nonHsVars>>

\* Client::handshake: read_hello_bytes, hello_verify, Authenticate::for_client
CliReadHello ==
    /\ c_pc = "read_hello"
    /\ s2c # <<>> \/ s_closed
    /\ IF s2c = <<>>
       THEN CliFail("ReadFailed") /\ UNCHANGED s2c
       ELSE LET v == hello_verify(ClientEndpoint, Head(s2c))
            IN  /\ s2c' = Tail(s2c)
                /\ IF ~v.ok
                   THEN CliFail("HelloMessageInvalid")
                   ELSE /\ c_st' = [c_st EXCEPT
                              !.remote_session_pk = v.pk,
                              !.authenticate =
                                  Authenticate_for_client(ClientEndpoint,
                                      hs_cfg.client_server_pk, v.pk)]
                        /\ c_pc' = "write_authenticate"
                        /\ UNCHANGED <<c_res, c_params>>
    /\ UNCHANGED <<hs_cfg, srvHsVars, c2s, c_closed, s_closed, nonHsVars>>

\* Client::handshake: authenticate_message, write_all, Accept::for_client
CliWriteAuthenticate ==
    /\ c_pc = "write_authenticate"
    /\ IF s_closed
       THEN CliFail("WriteFailed") /\ UNCHANGED c2s
       ELSE /\ c2s' = Append(c2s, authenticate_message(ClientEndpoint,
                                hs_cfg.client_server_pk, c_st.authenticate))
            /\ c_st' = [c_st EXCEPT !.accept =
                            Accept_for_client(ClientEndpoint,
                                hs_cfg.client_server_pk, c_st.authenticate)]
            /\ c_pc' = "read_accept"
            /\ UNCHANGED <<c_res, c_params>>
    /\ UNCHANGED <<hs_cfg, srvHsVars, s2c, c_closed, s_closed, nonHsVars>>

\* Client::handshake: read_exact(&mut reply), accept_message_verify,
\* box_stream_params
CliReadAccept ==
    /\ c_pc = "read_accept"
    /\ s2c # <<>> \/ s_closed
    /\ IF s2c = <<>>
       THEN CliFail("AcceptConnectionClosed") /\ UNCHANGED s2c
       ELSE LET r == accept_message_verify(hs_cfg.client_server_pk, c_st.accept,
                                           Head(s2c))
            IN  /\ s2c' = Tail(s2c)
                /\ IF r # "Ok"
                   THEN CliFail(r)
                   ELSE /\ c_res' = "Ok"
                        /\ c_params' = box_stream_params(ClientEndpoint, c_st.accept,
                                           hs_cfg.client_server_pk,
                                           c_st.remote_session_pk)
                        /\ c_pc' = "done"
                        /\ UNCHANGED c_st
    /\ UNCHANGED <<hs_cfg, srvHsVars, c2s, c_closed, s_closed, nonHsVars>>

\* Client::connect: on Err the stream is dropped
CliClose ==
    /\ c_pc = "done"
    /\ c_res # "Ok"
    /\ ~c_closed
    /\ c_closed' = TRUE
    /\ UNCHANGED <<hs_cfg, cliHsVars, srvHsVars, c2s, s2c, s_closed, nonHsVars>>

\* Server::handshake: read_hello_bytes, hello_verify, Authenticate::for_server
SrvReadHello ==
    /\ s_pc = "read_hello"
    /\ c2s # <<>> \/ c_closed
    /\ IF c2s = <<>>
       THEN SrvFail("ReadFailed") /\ UNCHANGED c2s
       ELSE LET v == hello_verify(ServerEndpoint, Head(c2s))
            IN  /\ c2s' = Tail(c2s)
                /\ IF ~v.ok
                   THEN SrvFail("HelloMessageInvalid")
                   ELSE /\ s_st' = [s_st EXCEPT
                              !.remote_session_pk = v.pk,
                              !.authenticate =
                                  Authenticate_for_server(ServerEndpoint, v.pk)]
                        /\ s_pc' = "write_hello"
                        /\ UNCHANGED <<s_res, s_params>>
    /\ UNCHANGED <<hs_cfg, cliHsVars, s2c, c_closed, s_closed, nonHsVars>>

\* Server::handshake: stream.write_all(&endpoint.hello_message())
SrvWriteHello ==
    /\ s_pc = "write_hello"
    /\ IF c_closed
       THEN SrvFail("WriteFailed") /\ UNCHANGED s2c
       ELSE /\ s2c' = Append(s2c, hello_message(ServerEndpoint))
            /\ s_pc' = "read_authenticate"
            /\ UNCHANGED <<s_st, s_res, s_params>>
    /\ UNCHANGED <<hs_cfg, cliHsVars, c2s, c_closed, s_closed, nonHsVars>>

\* Server::handshake: read_exact(&mut authenticate_msg), verify_and_accept
SrvReadAuthenticate ==
    /\ s_pc = "read_authenticate"
    /\ c2s # <<>> \/ c_closed
    /\ IF c2s = <<>>
       THEN SrvFail("ReadFailed") /\ UNCHANGED c2s
       ELSE LET r == verify_and_accept(s_st.authenticate, ServerEndpoint, Head(c2s))
            IN  /\ c2s' = Tail(c2s)
                /\ IF r.res # "Ok"
                   THEN SrvFail(r.res)
                   ELSE /\ s_st' = [s_st EXCEPT !.accept = r.accept]
                        /\ s_pc' = "write_accept"
                        /\ UNCHANGED <<s_res, s_params>>
    /\ UNCHANGED <<hs_cfg, cliHsVars, s2c, c_closed, s_closed, nonHsVars>>

\* Server::handshake: accept_message, write_all, box_stream_params
SrvWriteAccept ==
    /\ s_pc = "write_accept"
    /\ IF c_closed
       THEN SrvFail("WriteFailed") /\ UNCHANGED s2c
       ELSE /\ s2c' = Append(s2c, accept_message(ServerEndpoint, s_st.accept))
            /\ s_res' = "Ok"
            /\ s_params' = box_stream_params(ServerEndpoint, s_st.accept,
                               s_st.accept.client_identity_pk,
                               s_st.remote_session_pk)
            /\ s_pc' = "done"
            /\ UNCHANGED s_st
    /\ UNCHANGED <<hs_cfg, cliHsVars, c2s, c_closed, s_closed, nonHsVars>>

\* Server::accept: on Err the stream is dropped (closed in the test)
SrvClose ==
    /\ s_pc = "done"
    /\ s_res # "Ok"
    /\ ~s_closed
    /\ s_closed' = TRUE
    /\ UNCHANGED <<hs_cfg, cliHsVars, srvHsVars, c2s, s2c, c_closed, nonHsVars>>

(***************************************************************************)
(* muxrpc packets (packet.rs, stream_message.rs, stream_request.rs).       *)
(***************************************************************************)
\* What a body carries once decoded: a StreamRequest has a name and a
\* type_, any other value only its content.
Value(name, type_, args) == [name |-> name, type_ |-> type_, args |-> args]

Body_json(value) == [type |-> "Json", data |-> value]

Body_string(value) == [type |-> "String", data |-> value]

Error_new(name, message) == [name |-> name, message |-> message]

StreamMessage_Data(body) == [kind |-> "Data", body |-> body]

StreamMessage_Error(error) == [kind |-> "Error", error |-> error]

StreamMessage_End == [kind |-> "End"]

is_end(message) == message.kind \in {"Error", "End"}

Request_Async(number, method, args) ==
    [type |-> "Async", number |-> number, method |-> method, args |-> args]

Request_Stream(number, message) ==
    [type |-> "Stream", number |-> number, message |-> message]

Response_AsyncOk(number, body) ==
    [type |-> "AsyncOk", number |-> number, body |-> body]

Response_AsyncErr(number, name, message) ==
    [type |-> "AsyncErr", number |-> number, error |-> Error_new(name, message)]

Response_Stream(number, message) ==
    [type |-> "Stream", number |-> number, message |-> message]

into_response(message, number) == Response_Stream(number, message)

into_request(message, number) == Request_Stream(number, message)

\* StreamRequest::into_request
StreamRequest_into_request(name, type_, args, id) ==
    into_request(StreamMessage_Data(Body_json(Value(name, type_, args))), id)

\* serde's Deserialize for StreamRequest: a JSON value with a type_ of
\* "source", "sink" or "duplex"
StreamRequest_parses(body) ==
    body.type = "Json" /\ body.data.type_ \in {"source", "sink", "duplex"}

(***************************************************************************)
(* Maps (CHashMap, HashMap) are functions on the set of their keys.        *)
(***************************************************************************)
EmptyMap == <<>>

insert(map, key, value) ==
    [k \in DOMAIN map \cup {key} |-> IF k = key THEN value ELSE map[k]]

remove_all_keys(map, key) == EmptyMap

remove(map, key) == [k \in DOMAIN map \ {key} |-> map[k]]

(***************************************************************************)
(* muxrpc Client (client.rs).                                              *)
(***************************************************************************)
MaxCalls == 2        \* calls of send_async / start_stream per client
MaxResponses == 2    \* responses the peer sends per run
MaxSinkData == 1     \* Data messages pushed into one StreamSink
MaxInFlight == 1     \* responses that have arrived and are not yet consumed

\* impl From<Body> for AsyncResponse
AsyncResponse_from(body) ==
    [variant |-> body.type, data |-> body.data, error |-> Error_new("", "")]

AsyncResponse_Error(error) ==
    [variant |-> "Error", data |-> Value("", "", 0), error |-> error]

\* futures::channel::oneshot::channel() and mpsc::unbounded(): the items
\* sent, whether a sender is alive, whether the receiver is alive
oneshot_channel == [kind |-> "oneshot", items |-> <<>>, tx |-> TRUE, rx |-> TRUE]

mpsc_unbounded == [kind |-> "mpsc", items |-> <<>>, tx |-> TRUE, rx |-> TRUE]

\* Sender::send / UnboundedSender::unbounded_send: Err when the receiver
\* is gone; a oneshot sender is consumed
channel_send(ch, item) ==
    IF ch.rx
    THEN [ch EXCEPT !.items = Append(@, item),
                    !.tx = IF ch.kind = "oneshot" THEN FALSE ELSE @]
    ELSE [ch EXCEPT !.tx = IF ch.kind = "oneshot" THEN FALSE ELSE @]

drop_sender(ch) == [ch EXCEPT !.tx = FALSE]

drop_receiver(ch) == [ch EXCEPT !.rx = FALSE]

Idle == [pc |-> "idle", number |-> 0, chan |-> 0]

\* how a call of send_async / start_stream ended
Returned(number, kind, result) ==
    [number |-> number, kind |-> kind, result |-> result]

sink_send_in_front(request) ==
    [request_sink EXCEPT ![request.number] = <<request>> \o @]

\* request_sink.send(request) when the sink takes it
sink_send(request) ==
    [request_sink EXCEPT ![request.number] = Append(@, request)]

ClientStart ==
    /\ next_request_number = 1
    /\ pending_async_requests = EmptyMap
    /\ client_streams = EmptyMap
    /\ chans = <<>>
    /\ caller = Idle
    /\ call_result = Returned(0, "", "")
    /\ inserted = {}
    /\ request_sink = [n \in 1..MaxCalls |-> <<>>]
    /\ request_sink_closed = FALSE
    /\ stream_handles = EmptyMap
    /\ response_stream = <<>>
    /\ response_stream_ended = FALSE
    /\ responses_sent = 0
    /\ reader_pc = "running"
    /\ stream_log = [n \in 1..MaxCalls |-> <<>>]

callerVars == <<next_request_number, caller, call_result>>

tableVars == <<pending_async_requests, client_streams, chans, inserted>>

sinkVars == <<request_sink, request_sink_closed, stream_handles>>

peerVars == <<response_stream, response_stream_ended, responses_sent>>

readerVars == <<reader_pc, stream_log>>

\* Client::send_async, client.rs 139-148: takes the next request number and
\* registers the one-shot sender under it
SendAsyncInsert ==
    /\ caller.pc = "idle"
    /\ next_request_number <= MaxCalls
    /\ LET request_number == next_request_number
           ch == Len(chans) + 1
       IN /\ next_request_number' = request_number + 1
          /\ chans' = Append(chans, oneshot_channel)
          /\ pending_async_requests' =
                 insert(pending_async_requests, request_number, ch)
          /\ inserted' = inserted \cup {request_number}
          /\ caller' = [pc |-> "async_send", number |-> request_number, chan |-> ch]
    /\ UNCHANGED <<call_result, client_streams, sinkVars, peerVars, readerVars,
                   nonClientVars>>

\* Client::send_async, client.rs 149-152: self.request_sink.send(request)
SendAsyncSend ==
    /\ caller.pc = "async_send"
    /\ IF request_sink_closed
       THEN /\ call_result' =
                 Returned(caller.number, "async", "AsyncRequestError::Send")
            /\ caller' = Idle
            /\ chans' = [chans EXCEPT ![caller.chan] = drop_receiver(@)]
            /\ UNCHANGED request_sink
       ELSE /\ request_sink' = sink_send(Request_Async(caller.number, "asyncEcho", 1))
            /\ caller' = [caller EXCEPT !.pc = "async_wait"]
            /\ UNCHANGED <<call_result, chans>>
    /\ UNCHANGED <<next_request_number, pending_async_requests, client_streams,
                   inserted, request_sink_closed, stream_handles, peerVars,
                   readerVars, nonClientVars>>

\* Client::send_async, client.rs 153-155: receiver.await.expect(..)
SendAsyncReturn ==
    /\ caller.pc = "async_wait"
    /\ LET ch == chans[caller.chan]
       IN /\ ch.items # <<>> \/ ~ch.tx
          /\ IF ch.items # <<>>
             THEN /\ call_result' =
                       Returned(caller.number, "async", "Ok")
                  /\ caller' = Idle
             ELSE /\ caller' = [caller EXCEPT !.pc = "panicked"]
                  /\ UNCHANGED call_result
    /\ chans' = [chans EXCEPT ![caller.chan] = drop_receiver(@)]
    /\ UNCHANGED <<next_request_number, pending_async_requests, client_streams,
                   inserted, sinkVars, peerVars, readerVars, nonClientVars>>

\* Client::start_stream, client.rs 174-175
StartStreamNumber ==
    /\ caller.pc = "idle"
    /\ next_request_number <= MaxCalls
    /\ caller' = [pc |-> "stream_send", number |-> next_request_number, chan |-> 0]
    /\ next_request_number' = next_request_number + 1
    /\ UNCHANGED <<call_result, tableVars, sinkVars, peerVars, readerVars,
                   nonClientVars>>

\* Client::start_stream, client.rs 177-186: the request is handed to the
\* sink; the send completes when the sink has flushed
StartStreamSend ==
    /\ caller.pc = "stream_send"
    /\ IF request_sink_closed
       THEN /\ call_result' =
                 Returned(caller.number, "stream", "Err")
            /\ caller' = Idle
            /\ UNCHANGED request_sink
       ELSE /\ request_sink' = sink_send(
                 StreamRequest_into_request("duplexAdd", "duplex", 1, caller.number))
            /\ caller' = [caller EXCEPT !.pc = "stream_flush"]
            /\ UNCHANGED call_result
    /\ UNCHANGED <<next_request_number, tableVars, request_sink_closed,
                   stream_handles, peerVars, readerVars, nonClientVars>>

\* Client::start_stream, client.rs 188-196: after the send has completed the
\* channel is created and its sender stored in streams
StartStreamInsert ==
    /\ caller.pc = "stream_flush"
    /\ LET ch == Len(chans) + 1
       IN /\ chans' = Append(chans, mpsc_unbounded)
          /\ client_streams' = insert(client_streams, caller.number, ch)
          /\ stream_handles' = insert(stream_handles, caller.number,
                 [chan |-> ch, sink |-> TRUE, data |-> 0])
    /\ inserted' = inserted \cup {caller.number}
    /\ call_result' =
           Returned(caller.number, "stream", "Ok")
    /\ caller' = Idle
    /\ UNCHANGED <<next_request_number, pending_async_requests, request_sink,
                   request_sink_closed, peerVars, readerVars, nonClientVars>>

\* The future of send_async / start_stream is dropped at one of its awaits;
\* with it goes the one-shot receiver
CallerCancel ==
    /\ caller.pc \in {"async_send", "async_wait", "stream_send", "stream_flush"}
    /\ chans' = IF caller.chan = 0 THEN chans
                ELSE [chans EXCEPT ![caller.chan] = drop_receiver(@)]
    /\ call_result' =
           Returned(caller.number,
                    IF caller.chan = 0 THEN "stream" ELSE "async",
                    "Cancelled")
    /\ caller' = Idle
    /\ UNCHANGED <<next_request_number, pending_async_requests, client_streams,
                   inserted, sinkVars, peerVars, readerVars, nonClientVars>>

\* StreamSink::send, client.rs 240-242 and 252-256
StreamSink_send(id) ==
    /\ id \in DOMAIN stream_handles
    /\ stream_handles[id].sink
    /\ stream_handles[id].data < MaxSinkData
    /\ ~request_sink_closed
    /\ request_sink' = sink_send(
           into_request(StreamMessage_Data(Body_json(Value("", "", 1))), id))
    /\ stream_handles' = [stream_handles EXCEPT ![id].data = @ + 1]
    /\ UNCHANGED <<callerVars, tableVars, request_sink_closed, peerVars,
                   readerVars, nonClientVars>>

\* StreamSink::close and StreamSink::error, client.rs 244-256: both consume
\* the sink
StreamSink_close(id, message) ==
    /\ id \in DOMAIN stream_handles
    /\ stream_handles[id].sink
    /\ request_sink' = IF request_sink_closed THEN request_sink
                       ELSE sink_send(into_request(message, id))
    /\ stream_handles' = [stream_handles EXCEPT ![id].sink = FALSE]
    /\ UNCHANGED <<callerVars, tableVars, request_sink_closed, peerVars,
                   readerVars, nonClientVars>>

\* The responses the peer may send as its k-th: any kind, for any request
\* number, whether or not such a request was made
PeerResponses(k) ==
    UNION {{Response_AsyncOk(n, Body_string(Value("", "", k))),
            Response_AsyncErr(n, "ERROR", "MSG"),
            Response_Stream(n, StreamMessage_Data(Body_json(Value("", "", k)))),
            Response_Stream(n, StreamMessage_Error(Error_new("ERROR", "MSG"))),
            Response_Stream(n, StreamMessage_End)} : n \in 1..MaxCalls}

\* a response arrives on response_stream
PeerRespond(response) ==
    /\ ~response_stream_ended
    /\ responses_sent < MaxResponses
    /\ Len(response_stream) < MaxInFlight
    /\ response_stream' = Append(response_stream, response)
    /\ responses_sent' = responses_sent + 1
    /\ UNCHANGED <<response_stream_ended, callerVars, tableVars, sinkVars,
                   readerVars, nonClientVars>>

\* response_stream ends: the connection is closed
PeerEnd ==
    /\ ~response_stream_ended
    /\ response_stream_ended' = TRUE
    /\ UNCHANGED <<response_stream, responses_sent, callerVars, tableVars,
                   sinkVars, readerVars, nonClientVars>>

\* the outbound sink starts failing: the peer no longer takes requests
PeerDropRequests ==
    /\ ~request_sink_closed
    /\ request_sink_closed' = TRUE
    /\ UNCHANGED <<request_sink, stream_handles, callerVars, tableVars, peerVars,
                   readerVars, nonClientVars>>

Item_Ok(body) == [ok |-> TRUE, body |-> body]

Item_Err(error) == [ok |-> FALSE, error |-> error]

\* a request with this number has been handed to the outbound sink
Requested(number) == request_sink[number] # <<>>

\* consume_responses, client.rs 79-87 and 94-104: pending.alter(number, ..).
\* alter takes the entry out before it calls the closure, so the entry is
\* gone also when the closure panics on unwrap(); without an entry AsyncOk
\* logs and AsyncErr reaches todo!()
alter_pending(number, async_response, is_err) ==
    /\ IF number \in DOMAIN pending_async_requests
       THEN LET ch == pending_async_requests[number]
            IN /\ chans' = [chans EXCEPT ![ch] = channel_send(@, async_response)]
               /\ pending_async_requests' = remove(pending_async_requests, number)
               /\ reader_pc' = IF chans[ch].rx THEN "running" ELSE "panicked"
       ELSE /\ reader_pc' = IF is_err THEN "panicked" ELSE "running"
            /\ UNCHANGED <<chans, pending_async_requests>>
    /\ UNCHANGED client_streams

\* consume_responses, client.rs 106-128
stream_response(number, message) ==
    /\ IF number \in DOMAIN client_streams
       THEN LET ch == client_streams[number]
            IN CASE message.kind = "Data" ->
                      /\ chans' = [chans EXCEPT
                             ![ch] = channel_send(@, Item_Ok(message.body))]
                      /\ UNCHANGED client_streams
                 [] message.kind = "Error" ->
                      /\ chans' = [chans EXCEPT
                             ![ch] = drop_sender(channel_send(@, Item_Err(message.error)))]
                      /\ client_streams' = remove(client_streams, number)
                 [] message.kind = "End" ->
                      /\ chans' = [chans EXCEPT ![ch] = drop_sender(@)]
                      /\ client_streams' = remove(client_streams, number)
       ELSE UNCHANGED <<chans, client_streams>>
    /\ reader_pc' = "running"
    /\ UNCHANGED pending_async_requests

\* consume_responses, client.rs 75-130: one turn of the loop
ConsumeResponse ==
    /\ reader_pc = "running"
    /\ response_stream # <<>>
    /\ LET response == Head(response_stream)
       IN /\ response_stream' = Tail(response_stream)
          /\ CASE response.type = "AsyncOk" ->
                    alter_pending(response.number,
                                  AsyncResponse_from(response.body), FALSE)
               [] response.type = "AsyncErr" ->
                    alter_pending(response.number,
                                  AsyncResponse_Error(response.error), TRUE)
               [] response.type = "Stream" ->
                    stream_response(response.number, response.message)
          /\ stream_log' =
                 IF response.type = "Stream" /\ Requested(response.number)
                 THEN [stream_log EXCEPT ![response.number] =
                          Append(@, response.message)]
                 ELSE stream_log
    /\ UNCHANGED <<response_stream_ended, responses_sent, callerVars, inserted,
                   sinkVars, nonClientVars>>

\* consume_responses, client.rs 75: response_stream.next() is None
ReaderEnd ==
    /\ reader_pc = "running"
    /\ response_stream = <<>>
    /\ response_stream_ended
    /\ reader_pc' = "done"
    /\ UNCHANGED <<stream_log, callerVars, tableVars, sinkVars, peerVars,
                   nonClientVars>>

(***************************************************************************)
(* muxrpc Service (service.rs): the endpoints the registered handlers      *)
(* are wrapped into.                                                       *)
(***************************************************************************)
MaxRequests == 3     \* requests the dispatcher handles per run
MaxIds == 2          \* request numbers the peer uses
MaxItems == 1        \* Data items the source of one handler yields

\* service::AsyncResponse
service_AsyncResponse_Ok(body) == [ok |-> TRUE, body |-> body]

service_AsyncResponse_Err(error) == [ok |-> FALSE, error |-> error]

\* service::AsyncResponse::into_response
AsyncResponse_into_response(response, number) ==
    IF response.ok
    THEN Response_AsyncOk(number, response.body)
    ELSE Response_AsyncErr(number, response.error.name, response.error.message)

method_not_found_error(method) ==
    Error_new("METHOD_NOT_FOUND", "Method \"" \o method \o "\" not found")

deserialize_arguments_error ==
    Error_new("ArgumentError", "Failed to deserialize arguments")

\* serde_json::from_value::<Args>(args): the registered handlers take the
\* argument 1; any other value fails to deserialize
args_deserialize(args) == args = 1

\* Service.async_handlers and Service.stream_handlers: the registered method
\* paths, and for a stream which add_* registered it
async_handlers == service.async_handlers

stream_handlers == service.stream_handlers

\* a service with one async handler (add_async) and one handler of each
\* kind of stream (add_source, add_sink, add_duplex)
RegisteredService ==
    [async_handlers |-> {"asyncEcho"},
     stream_handlers |-> [source |-> "source", sink |-> "sink", duplex |-> "duplex"]]

\* Service::new, service.rs 53-55: no handler is registered
Service_new == [async_handlers |-> {}, stream_handlers |-> <<>>]

\* What a BoxFuture of handle_async resolves to: a ready future has its
\* value, the future of a handler resolves to what the handler decides
Future_ready(response) == [ready |-> TRUE, response |-> response]

Future_handler(args) ==
    [ready |-> FALSE, response |-> service_AsyncResponse_Ok(Body_json(Value("", "", args)))]

handle_async_any_method(method, args) ==
    IF args_deserialize(args)
    THEN Future_handler(args)
    ELSE Future_ready(service_AsyncResponse_Err(deserialize_arguments_error))

\* Service::handle_async, with the closure of add_async
handle_async(method, args) ==
    IF method \in async_handlers
    THEN IF args_deserialize(args)
         THEN Future_handler(args)
         ELSE Future_ready(service_AsyncResponse_Err(deserialize_arguments_error))
    ELSE Future_ready(service_AsyncResponse_Err(method_not_found_error(method)))

\* the results a handler's future may resolve to
HandlerResults(future) ==
    IF future.ready THEN {future.response}
    ELSE {future.response,
          service_AsyncResponse_Err(Error_new("ERROR", "MSG"))}

\* The pair (BoxEndpointStream, BoxEndpointSink) of one stream, with the two
\* tasks of StreamHandle::new:
\*   kind      which wrapper built it: "source" stream_to_endpoint, "sink"
\*             sink_to_endpoint, "duplex" add_duplex, "error" error_endpoint
\*   error     the error of an error_endpoint
\*   incoming  messages in the unbounded channel of the StreamHandle
\*   fwd       the task forwarding incoming to the sink: "running" or "done"
\*   src       the task polling the source: "running" or "done"
\*   yielded   Data items the handler's source has yielded
\*   oneshot   state of the one-shot channel between sink and source:
\*             peer_end of stream_to_endpoint, response of sink_to_endpoint
\*   delivered messages the handler's sink has accepted
\*   req       the place of the opening request among those received for id
\*   fed       messages the forward task has handed to the BoxEndpointSink
\*   reported  the error the handler's sink has reported, "" if none
EndpointPair(id, req, kind, error) ==
    [id |-> id, req |-> req, kind |-> kind, error |-> error, incoming |-> <<>>,
     fwd |-> "running", src |-> "running", yielded |-> 0,
     oneshot |-> [state |-> "empty", message |-> StreamMessage_End],
     delivered |-> <<>>, fed |-> <<>>, reported |-> ""]

error_endpoint_with_source(id, req, error) == EndpointPair(id, req, "duplex", error)

error_endpoint(id, req, error) == EndpointPair(id, req, "error", error)

sink_to_endpoint(id, req) == EndpointPair(id, req, "sink", Error_new("", ""))

stream_to_endpoint(id, req) == EndpointPair(id, req, "source", Error_new("", ""))

duplex_endpoint(id, req) == EndpointPair(id, req, "duplex", Error_new("", ""))

\* Service::handle_stream, with the closures of add_source, add_sink and
\* add_duplex
handle_stream(id, req, method, args) ==
    IF method \in DOMAIN stream_handlers
    THEN IF args_deserialize(args)
         THEN CASE stream_handlers[method] = "source" -> stream_to_endpoint(id, req)
                [] stream_handlers[method] = "sink" -> sink_to_endpoint(id, req)
                [] stream_handlers[method] = "duplex" -> duplex_endpoint(id, req)
         ELSE error_endpoint(id, req, deserialize_arguments_error)
    ELSE error_endpoint(id, req, method_not_found_error(method))

SENT_DATA_TO_SOURCE ==
    Error_new("SENT_DATA_TO_SOURCE", "Cannot send data to a \"source\" stream")

stream_does_not_exist_error_without_id(number) ==
    Error_new("STREAM_DOES_NOT_EXIST", "Stream with ID does not exist")

stream_does_not_exist_error(number) ==
    Error_new("STREAM_DOES_NOT_EXIST",
              "Stream with ID " \o ToString(number) \o " does not exist")

(***************************************************************************)
(* muxrpc RequestDispatcher (server.rs).                                   *)
(***************************************************************************)
\* A task spawned by handle_request that sends one response: the number,
\* the place of its request among those received for the number, and what
\* it may send
Task(number, req, choices) == [number |-> number, req |-> req, choices |-> choices]

\* response_sender.send(response): a sender that is not parked always gets
\* its message queued.  req and inst record which task or which stream
\* sent, seen how many requests with the number had been handled by then.
send_response(response, req, inst) ==
    [responses EXCEPT ![response.number] =
        Append(@, [response |-> response, req |-> req, inst |-> inst,
                   seen |-> Len(received[response.number])])]

incoming_in_front(h, stream_message) ==
    IF h.fwd = "running"
    THEN [h EXCEPT !.incoming = <<stream_message>> \o @]
    ELSE h

incoming_when_idle(h, stream_message) ==
    IF h.fwd = "running" /\ h.incoming = <<>>
    THEN [h EXCEPT !.incoming = Append(@, stream_message)]
    ELSE h

\* StreamHandle::incoming, the result of unbounded_send is ignored
incoming(h, stream_message) ==
    IF h.fwd = "running"
    THEN [h EXCEPT !.incoming = Append(@, stream_message)]
    ELSE h

ServerStart ==
    /\ srv_pc = "running"
    /\ streams = EmptyMap
    /\ handles = <<>>
    /\ tasks = <<>>
    /\ received = [n \in 1..MaxIds |-> <<>>]
    /\ responses = [n \in 1..MaxIds |-> <<>>]
    /\ requests_handled = 0

\* the requests a peer may send with a number
Requests(number) ==
    {Request_Async(number, "asyncEcho", 1),
     Request_Async(number, "asyncEcho", 0),
     Request_Async(number, "missing", 1),
     StreamRequest_into_request("source", "source", 1, number),
     StreamRequest_into_request("source", "source", 0, number),
     StreamRequest_into_request("sink", "sink", 1, number),
     StreamRequest_into_request("duplex", "duplex", 1, number),
     StreamRequest_into_request("missing", "source", 1, number),
     into_request(StreamMessage_Data(Body_string(Value("", "", 1))), number),
     into_request(StreamMessage_Error(Error_new("ERROR", "MSG")), number),
     into_request(StreamMessage_End, number)}

\* RequestDispatcher::handle_request, server.rs 35-49
handle_request_Async(msg, req) ==
    /\ tasks' = Append(tasks,
           Task(msg.number, req,
                {AsyncResponse_into_response(r, msg.number) :
                    r \in HandlerResults(handle_async(msg.method, msg.args))}))
    /\ UNCHANGED <<srv_pc, streams, handles>>

\* RequestDispatcher::handle_request, server.rs 51-64
handle_request_Data(msg, req) ==
    IF msg.number \in DOMAIN streams
    THEN /\ handles' = [handles EXCEPT
                           ![streams[msg.number]] = incoming(@, msg.message)]
         /\ UNCHANGED <<srv_pc, streams, tasks>>
    ELSE IF StreamRequest_parses(msg.message.body)
         THEN /\ handles' = Append(handles,
                     handle_stream(msg.number, req, msg.message.body.data.name,
                                   msg.message.body.data.args))
              /\ streams' = insert(streams, msg.number, Len(handles) + 1)
              /\ UNCHANGED <<srv_pc, tasks>>
         ELSE \* `?` leaves handle_request and run; the dispatcher is dropped
              /\ srv_pc' = "failed"
              /\ streams' = EmptyMap
              /\ UNCHANGED <<handles, tasks>>

\* RequestDispatcher::handle_request, server.rs 65-86
handle_request_End(msg, req) ==
    IF msg.number \in DOMAIN streams
    THEN /\ handles' = [handles EXCEPT
                           ![streams[msg.number]] = incoming(@, msg.message)]
         /\ streams' = remove(streams, msg.number)
         /\ UNCHANGED <<srv_pc, tasks>>
    ELSE /\ tasks' = Append(tasks,
                Task(msg.number, req,
                     {into_response(
                          StreamMessage_Error(stream_does_not_exist_error(msg.number)),
                          msg.number)}))
         /\ UNCHANGED <<srv_pc, streams, handles>>

\* server::run, server.rs 19-21: one request taken from request_stream and
\* handled
handle_request(msg) ==
    /\ srv_pc = "running"
    /\ requests_handled < MaxRequests
    /\ requests_handled' = requests_handled + 1
    /\ received' = [received EXCEPT ![msg.number] = Append(@, msg)]
    /\ LET req == Len(received[msg.number]) + 1
       IN CASE msg.type = "Async" -> handle_request_Async(msg, req)
            [] msg.type = "Stream" /\ msg.message.kind = "Data" ->
                   handle_request_Data(msg, req)
            [] msg.type = "Stream" /\ is_end(msg.message) ->
                   handle_request_End(msg, req)
    /\ UNCHANGED <<responses, service, nonServerVars>>

\* server::run, server.rs 19 and 22: request_stream has ended, the
\* dispatcher and with it every StreamHandle is dropped
RunEnd ==
    /\ srv_pc = "running"
    /\ srv_pc' = "done"
    /\ streams' = EmptyMap
    /\ UNCHANGED <<handles, tasks, received, responses, requests_handled,
                   service, nonServerVars>>

\* a sequence without its i-th element
RemoveAt(seq, i) == SubSeq(seq, 1, i - 1) \o SubSeq(seq, i + 1, Len(seq))

\* the task spawned at server.rs 42-48 or 70-84 gets its response and
\* sends it
TaskRespond(t) ==
    /\ t \in 1..Len(tasks)
    /\ \E response \in tasks[t].choices :
          responses' = send_response(response, tasks[t].req, 0)
    /\ tasks' = RemoveAt(tasks, t)
    /\ UNCHANGED <<srv_pc, streams, handles, received, requests_handled,
                   service, nonServerVars>>

\* the StreamHandle of the stream is still in RequestDispatcher.streams
HandleAlive(i) == \E n \in DOMAIN streams : streams[n] = i

\* What the source of a handler may yield next: one more body, its end or
\* an error.  A source that stays pending takes no step.
handler_source(h) ==
    (IF h.yielded < MaxItems
     THEN {StreamMessage_Data(Body_json(Value("", "", h.yielded + 1)))}
     ELSE {})
    \cup {StreamMessage_End, StreamMessage_Error(Error_new("ERROR", "MSG"))}

peer_end_message_always_end(oneshot) == StreamMessage_End

peer_end_message_always_error(oneshot) ==
    StreamMessage_Error(SENT_DATA_TO_SOURCE)

\* stream_to_endpoint, service.rs 257-272: what the source yields once
\* peer_end_receiver is ready
peer_end_message(oneshot) ==
    IF oneshot.state = "sent"
    THEN CASE oneshot.message.kind = "Data" -> StreamMessage_Error(SENT_DATA_TO_SOURCE)
           [] oneshot.message.kind = "Error" -> oneshot.message
           [] oneshot.message.kind = "End" -> StreamMessage_End
    ELSE StreamMessage_End

oneshot_stream_of_unit(oneshot) ==
    IF oneshot.state = "empty" THEN {} ELSE {StreamMessage_End}

\* OneshotStream over response_receiver, service.rs 223-225
oneshot_stream(oneshot) ==
    CASE oneshot.state = "empty" -> {}
      [] oneshot.state = "sent" -> {oneshot.message}
      [] oneshot.state = "cancelled" -> {StreamMessage_End}

\* server.rs 112-117: the message made of the next item of the source
source_next(h) ==
    CASE h.kind = "error" -> {StreamMessage_Error(h.error)}
      [] h.kind = "duplex" -> handler_source(h)
      [] h.kind = "sink" -> oneshot_stream(h.oneshot)
      [] h.kind = "source" ->
             IF h.oneshot.state = "empty"
             THEN handler_source(h)
             ELSE {peer_end_message(h.oneshot)}

source_task_never_breaks(message) == FALSE

\* server.rs 118-122: the loop of the source task ends with the first
\* End or Error it has sent
source_task_breaks(message) == is_end(message)

\* StreamHandle::new, server.rs 108-124: one turn of the loop of the task
\* that sends the items of the source as responses
SourceStep(i) ==
    /\ i \in 1..Len(handles)
    /\ handles[i].src = "running"
    /\ \E message \in source_next(handles[i]) :
          /\ responses' = send_response(into_response(message, handles[i].id), 0, i)
          /\ handles' = [handles EXCEPT ![i] =
                 [@ EXCEPT !.src = IF source_task_breaks(message)
                                   THEN "done" ELSE "running",
                           !.yielded = IF message.kind = "Data" THEN @ + 1 ELSE @]]
    /\ UNCHANGED <<srv_pc, streams, tasks, received, requests_handled,
                   service, nonServerVars>>

Sent(message) == [state |-> "sent", message |-> message]

Cancelled == [state |-> "cancelled", message |-> StreamMessage_End]

\* the forward task has ended and dropped receiver and sink
forward_done(h) == [h EXCEPT !.fwd = "done", !.incoming = <<>>]

\* incoming_receiver.map(Ok).forward(sink), server.rs 126-128, with the
\* message at the head of the channel:
\*   OneshotSink (stream_to_endpoint) sends it if the source still listens,
\*     and fails on the flush that follows;
\*   drain (error_endpoint) swallows it;
\*   sink_to_endpoint hands Data to the handler's sink, turns End into
\*     SinkError::Done and Error into SinkError::Error;
\*   the sink of a duplex handler takes every message.
forward_message(h) ==
    LET message == Head(h.incoming)
        rest == [h EXCEPT !.incoming = Tail(@)]
    IN CASE h.kind = "source" ->
              forward_done([h EXCEPT !.oneshot =
                  IF h.src = "running" /\ h.oneshot.state = "empty"
                  THEN Sent(message) ELSE @])
         [] h.kind = "error" -> rest
         [] h.kind = "sink" ->
              (CASE message.kind = "Data" ->
                        [rest EXCEPT !.delivered = Append(@, message)]
                 [] message.kind = "End" ->
                        forward_done([h EXCEPT !.oneshot = Cancelled])
                 [] message.kind = "Error" ->
                        forward_done([h EXCEPT !.oneshot = Sent(message)]))
         [] h.kind = "duplex" -> [rest EXCEPT !.delivered = Append(@, message)]

ForwardStep(i) ==
    /\ i \in 1..Len(handles)
    /\ handles[i].fwd = "running"
    /\ handles[i].incoming # <<>>
    /\ handles' = [handles EXCEPT ![i] =
           forward_message([@ EXCEPT !.fed = Append(@, Head(handles[i].incoming))])]
    /\ UNCHANGED <<srv_pc, streams, tasks, received, responses,
                   requests_handled, service, nonServerVars>>

\* forward, when the StreamHandle has been dropped and the channel is
\* drained: the sink is closed and dropped, and with it the sender of the
\* one-shot
ForwardClose(i) ==
    /\ i \in 1..Len(handles)
    /\ handles[i].fwd = "running"
    /\ handles[i].incoming = <<>>
    /\ ~HandleAlive(i)
    /\ handles' = [handles EXCEPT ![i] =
           forward_done([@ EXCEPT !.oneshot =
               IF @.state = "empty" THEN Cancelled ELSE @])]
    /\ UNCHANGED <<srv_pc, streams, tasks, received, responses,
                   requests_handled, service, nonServerVars>>

\* what the sink of a handler may report when polled: SinkError::Done or
\* SinkError::Error for add_sink, SinkClosed for add_duplex
SinkErrors(h) ==
    CASE h.kind = "sink" -> {"Done", "Error"}
      [] h.kind = "duplex" -> {"SinkClosed"}
      [] OTHER -> {}

\* sink_to_endpoint, service.rs 236-242: the handler's sink reports an
\* error to the forward task, which ends
SinkReport(i, sink_error) ==
    /\ i \in 1..Len(handles)
    /\ handles[i].fwd = "running"
    /\ sink_error \in SinkErrors(handles[i])
    /\ handles' = [handles EXCEPT ![i] =
           forward_done([@ EXCEPT !.reported = sink_error, !.oneshot =
               CASE sink_error = "Done" -> Cancelled
                 [] sink_error = "Error" ->
                        Sent(StreamMessage_Error(Error_new("ERROR", "MSG")))
                 [] sink_error = "SinkClosed" -> @])]
    /\ UNCHANGED <<srv_pc, streams, tasks, received, responses,
                   requests_handled, service, nonServerVars>>

(***************************************************************************)
(* Endpoint (ssb/src/rpc/base/endpoint.rs).  Endpoint::new makes four      *)
(* bounded channels and spawns three tasks: the packet reader              *)
(* (dispatch_incoming_packet), the server (server::run) and the packet     *)
(* sender (both outbound channels merged and forwarded to the byte sink).  *)
(* The client, built from out_requests_sender and in_responses_receiver,   *)
(* is a field of the Endpoint.  A channel is modelled by the number of     *)
(* items it holds; who still holds one of its senders follows from the     *)
(* state of the tasks.                                                     *)
(***************************************************************************)
MaxPackets == 3      \* packets the inbound byte stream carries
MaxHandlers == 2     \* handler tasks alive at the same time
MaxClientCalls == 1  \* requests made through client() before join()

\* mpsc::channel(10), endpoint.rs 25-28
ChannelBuffer == 10

\* futures::channel::mpsc: a bounded channel holds its buffer and one more
\* item for every sender
Capacity(senders) == ChannelBuffer + senders

\* NextPacketError, packet_stream.rs 12-29: what the PacketStream of the
\* reader yields as an error
NextPacketErrors ==
    {"Source", "InvalidHeader", "PacketParse", "UnexpectedEndOfStream"}

\* senders of the out_responses channel: the dispatcher of server::run and
\* the tasks it spawned
ResponseSenders == (IF ep_server = "running" THEN 1 ELSE 0) + ep_handlers

\* both streams of select(out_requests_receiver, out_responses_receiver),
\* endpoint.rs 52-55, have ended: each is empty and has no sender left
OutboundEnded ==
    /\ ep_out_requests = 0
    /\ ~ep_client
    /\ ep_out_responses = 0
    /\ ResponseSenders = 0

\* a task has returned an error
Failed(task) == ep_failed' = Append(ep_failed, task)

EndpointStart ==
    /\ ep_reader = "running"
    /\ ep_server = "running"
    /\ ep_sender = "running"
    /\ ep_consumer = "running"
    /\ ep_in_requests = 0
    /\ ep_in_responses = 0
    /\ ep_out_requests = 0
    /\ ep_out_responses = 0
    /\ ep_handlers = 0
    /\ ep_client = TRUE
    /\ ep_join = "idle"
    /\ ep_join_error = <<>>
    /\ ep_failed = <<>>
    /\ ep_packets = 0
    /\ ep_calls = 0

\* dispatch_incoming_packet, endpoint.rs 118-124: the next item is a packet,
\* which is sent to its channel; .expect panics when the receiver is gone
ReadPacket(kind) ==
    /\ ep_reader = "running"
    /\ ep_packets < MaxPackets
    /\ ep_packets' = ep_packets + 1
    /\ CASE kind = "Request" ->
              /\ IF ep_server # "running"
                 THEN ep_reader' = "panicked" /\ UNCHANGED ep_in_requests
                 ELSE /\ ep_in_requests < Capacity(1)
                      /\ ep_in_requests' = ep_in_requests + 1
                      /\ UNCHANGED ep_reader
              /\ UNCHANGED ep_in_responses
         [] kind = "Response" ->
              /\ IF ep_consumer # "running"
                 THEN ep_reader' = "panicked" /\ UNCHANGED ep_in_responses
                 ELSE /\ ep_in_responses < Capacity(1)
                      /\ ep_in_responses' = ep_in_responses + 1
                      /\ UNCHANGED ep_reader
              /\ UNCHANGED ep_in_requests
    /\ UNCHANGED <<ep_server, ep_sender, ep_consumer, ep_out_requests,
                   ep_out_responses, ep_handlers, ep_client, ep_join,
                   ep_join_error, ep_failed, ep_calls, nonEndpointVars>>

\* dispatch_incoming_packet, endpoint.rs 125-128: the packet stream has
\* ended with no partial packet, the reader returns Ok(())
ReadEnd ==
    /\ ep_reader = "running"
    /\ ep_reader' = "Ok"
    /\ UNCHANGED <<ep_server, ep_sender, ep_consumer, ep_in_requests,
                   ep_in_responses, ep_out_requests, ep_out_responses,
                   ep_handlers, ep_client, ep_join, ep_join_error, ep_failed,
                   ep_packets, ep_calls, nonEndpointVars>>

\* dispatch_incoming_packet, endpoint.rs 118: try_next() is an error, which
\* the ? operator returns
ReadFail(error) ==
    /\ ep_reader = "running"
    /\ ep_reader' = error
    /\ Failed("reader")
    /\ UNCHANGED <<ep_server, ep_sender, ep_consumer, ep_in_requests,
                   ep_in_responses, ep_out_requests, ep_out_responses,
                   ep_handlers, ep_client, ep_join, ep_join_error,
                   ep_packets, ep_calls, nonEndpointVars>>

\* server::run, server.rs 19-21, takes the next request: it spawns a task
\* that holds a clone of the response sender ("spawn"), hands a message to
\* a stream it has ("route"), or fails on it ("fail"), which drops the
\* receiver with what it holds
ServerTake(outcome) ==
    /\ ep_server = "running"
    /\ ep_in_requests > 0
    /\ CASE outcome = "spawn" ->
              /\ ep_handlers < MaxHandlers
              /\ ep_handlers' = ep_handlers + 1
              /\ ep_in_requests' = ep_in_requests - 1
              /\ UNCHANGED <<ep_server, ep_failed>>
         [] outcome = "route" ->
              /\ ep_in_requests' = ep_in_requests - 1
              /\ UNCHANGED <<ep_server, ep_handlers, ep_failed>>
         [] outcome = "fail" ->
              /\ ep_server' = "Err"
              /\ ep_in_requests' = 0
              /\ Failed("server")
              /\ UNCHANGED ep_handlers
    /\ UNCHANGED <<ep_reader, ep_sender, ep_consumer, ep_in_responses,
                   ep_out_requests, ep_out_responses, ep_client, ep_join,
                   ep_join_error, ep_packets, ep_calls, nonEndpointVars>>

\* server::run, server.rs 19 and 22: the request stream has ended, that is
\* the reader has dropped its sender and nothing is queued
ServerEnd ==
    /\ ep_server = "running"
    /\ ep_reader # "running"
    /\ ep_in_requests = 0
    /\ ep_server' = "Ok"
    /\ UNCHANGED <<ep_reader, ep_sender, ep_consumer, ep_in_requests,
                   ep_in_responses, ep_out_requests, ep_out_responses,
                   ep_handlers, ep_client, ep_join, ep_join_error, ep_failed,
                   ep_packets, ep_calls, nonEndpointVars>>

\* a task of the server sends a response (server.rs 44, 75): it waits for
\* room in the channel; the send fails when the sender task has ended
HandlerSend ==
    /\ ep_handlers > 0
    /\ IF ep_sender = "running"
       THEN /\ ep_out_responses < Capacity(ResponseSenders)
            /\ ep_out_responses' = ep_out_responses + 1
       ELSE UNCHANGED ep_out_responses
    /\ UNCHANGED <<ep_reader, ep_server, ep_sender, ep_consumer,
                   ep_in_requests, ep_in_responses, ep_out_requests,
                   ep_handlers, ep_client, ep_join, ep_join_error, ep_failed,
                   ep_packets, ep_calls, nonEndpointVars>>

\* a task of the server ends and drops its clone of the response sender
HandlerFinish ==
    /\ ep_handlers > 0
    /\ ep_handlers' = ep_handlers - 1
    /\ UNCHANGED <<ep_reader, ep_server, ep_sender, ep_consumer,
                   ep_in_requests, ep_in_responses, ep_out_requests,
                   ep_out_responses, ep_client, ep_join, ep_join_error,
                   ep_failed, ep_packets, ep_calls, nonEndpointVars>>

\* Endpoint::client, endpoint.rs 84-86: the owner of the Endpoint makes a
\* request through the client, which sends it on out_requests_sender
ClientCall ==
    /\ ep_join = "idle"
    /\ ep_calls < MaxClientCalls
    /\ ep_calls' = ep_calls + 1
    /\ IF ep_sender = "running"
       THEN /\ ep_out_requests < Capacity(1)
            /\ ep_out_requests' = ep_out_requests + 1
       ELSE UNCHANGED ep_out_requests
    /\ UNCHANGED <<ep_reader, ep_server, ep_sender, ep_consumer,
                   ep_in_requests, ep_in_responses, ep_out_responses,
                   ep_handlers, ep_client, ep_join, ep_join_error, ep_failed,
                   ep_packets, nonEndpointVars>>

\* Client::consume_responses, client.rs 75-129, takes the next response;
\* it panics on an error response nobody waits for (client.rs 100)
ClientConsume(ok) ==
    /\ ep_consumer = "running"
    /\ ep_in_responses > 0
    /\ IF ok
       THEN ep_in_responses' = ep_in_responses - 1 /\ UNCHANGED ep_consumer
       ELSE ep_in_responses' = 0 /\ ep_consumer' = "panicked"
    /\ UNCHANGED <<ep_reader, ep_server, ep_sender, ep_in_requests,
                   ep_out_requests, ep_out_responses, ep_handlers, ep_client,
                   ep_join, ep_join_error, ep_failed, ep_packets, ep_calls,
                   nonEndpointVars>>

\* the packet sender, endpoint.rs 49-62, takes a packet of either channel
\* and writes it to the byte sink; a failed write ends the task with
\* "Failed to send packet" and drops both receivers
SenderWrite(channel, ok) ==
    /\ ep_sender = "running"
    /\ CASE channel = "requests" ->
              /\ ep_out_requests > 0
              /\ ep_out_requests' = IF ok THEN ep_out_requests - 1 ELSE 0
              /\ ep_out_responses' = IF ok THEN ep_out_responses ELSE 0
         [] channel = "responses" ->
              /\ ep_out_responses > 0
              /\ ep_out_responses' = IF ok THEN ep_out_responses - 1 ELSE 0
              /\ ep_out_requests' = IF ok THEN ep_out_requests ELSE 0
    /\ IF ok
       THEN UNCHANGED <<ep_sender, ep_failed>>
       ELSE ep_sender' = "Err" /\ Failed("sender")
    /\ UNCHANGED <<ep_reader, ep_server, ep_consumer, ep_in_requests,
                   ep_in_responses, ep_handlers, ep_client, ep_join,
                   ep_join_error, ep_packets, ep_calls, nonEndpointVars>>

\* the packet sender, endpoint.rs 49-62: both channels have ended, forward
\* closes the byte sink and the task returns
SenderEnd(ok) ==
    /\ ep_sender = "running"
    /\ OutboundEnded
    /\ IF ok
       THEN ep_sender' = "Ok" /\ UNCHANGED ep_failed
       ELSE ep_sender' = "Err" /\ Failed("sender")
    /\ UNCHANGED <<ep_reader, ep_server, ep_consumer, ep_in_requests,
                   ep_in_responses, ep_out_requests, ep_out_responses,
                   ep_handlers, ep_client, ep_join, ep_join_error,
                   ep_packets, ep_calls, nonEndpointVars>>

Pending == [state |-> "pending", error |-> <<>>]

\* the same, with the sender polled before the reader
try_join_sender_first(reader, sender, server) ==
    CASE sender = "Err" ->
             [state |-> "Err", error |-> <<"sender", "Failed to send packet">>]
      [] reader = "panicked" -> [state |-> "panicked", error |-> <<>>]
      [] reader \in NextPacketErrors ->
             [state |-> "Err", error |-> <<"reader", reader>>]
      [] server = "Err" ->
             [state |-> "Err", error |-> <<"server", "Server errored">>]
      [] reader = "Ok" /\ sender = "Ok" /\ server = "Ok" ->
             [state |-> "Ok", error |-> <<>>]
      [] OTHER -> Pending

\* futures::try_join!, endpoint.rs 95-99: one poll.  The futures are polled
\* in the order they are written, and the first one found to have returned
\* an error ends the poll with that error; awaiting a task that panicked
\* does not return
try_join(reader, sender, server) ==
    CASE reader = "panicked" -> [state |-> "panicked", error |-> <<>>]
      [] reader \in NextPacketErrors ->
             [state |-> "Err", error |-> <<"reader", reader>>]
      [] sender = "Err" ->
             [state |-> "Err", error |-> <<"sender", "Failed to send packet">>]
      [] server = "Err" ->
             [state |-> "Err", error |-> <<"server", "Server errored">>]
      [] reader = "Ok" /\ sender = "Ok" /\ server = "Ok" ->
             [state |-> "Ok", error |-> <<>>]
      [] OTHER -> Pending

\* Endpoint::join, endpoint.rs 88-94: the three task handles are moved out
\* of the Endpoint; its client field stays where it is
JoinCall ==
    /\ ep_join = "idle"
    /\ ep_join' = "pending"
    /\ UNCHANGED <<ep_reader, ep_server, ep_sender, ep_consumer,
                   ep_in_requests, ep_in_responses, ep_out_requests,
                   ep_out_responses, ep_handlers, ep_client, ep_join_error,
                   ep_failed, ep_packets, ep_calls, nonEndpointVars>>

\* Endpoint::join, endpoint.rs 95-101: a poll of try_join! that is ready.
\* The function returns, and what is left of self, the client, is dropped
JoinPoll ==
    /\ ep_join = "pending"
    /\ LET result == try_join(ep_reader, ep_sender, ep_server)
       IN /\ result # Pending
          /\ ep_join' = result.state
          /\ ep_join_error' = result.error
    /\ ep_client' = FALSE
    /\ UNCHANGED <<ep_reader, ep_server, ep_sender, ep_consumer,
                   ep_in_requests, ep_in_responses, ep_out_requests,
                   ep_out_responses, ep_handlers, ep_failed, ep_packets,
                   ep_calls, nonEndpointVars>>

\* the Endpoint is dropped without join(): the client is dropped with it
\* and the three tasks are detached
DropEndpoint ==
    /\ ep_join = "idle"
    /\ ep_join' = "dropped"
    /\ ep_client' = FALSE
    /\ UNCHANGED <<ep_reader, ep_server, ep_sender, ep_consumer,
                   ep_in_requests, ep_in_responses, ep_out_requests,
                   ep_out_responses, ep_handlers, ep_join_error, ep_failed,
                   ep_packets, ep_calls, nonEndpointVars>>

(***************************************************************************)
(* Specifications.                                                         *)
(***************************************************************************)
(***************************************************************************)
(* muxrpc/src/header.rs                                                    *)
(***************************************************************************)
Header_SIZE == 9

BodyTypes == {"Binary", "Utf8String", "Json"}

\* `self.body_type as u8`, the discriminant of enum BodyType
BodyType_as_u8(body_type) ==
    CASE body_type = "Binary" -> 0
      [] body_type = "Utf8String" -> 1
      [] body_type = "Json" -> 2

\* BodyType::from_flags: value & BODY_TYPE_MASK
BodyType_from_flags(value) ==
    LET masked == value % 4
    IN  CASE masked = 0 -> [ok |-> TRUE, body_type |-> "Binary", value |-> masked]
          [] masked = 1 -> [ok |-> TRUE, body_type |-> "Utf8String", value |-> masked]
          [] masked = 2 -> [ok |-> TRUE, body_type |-> "Json", value |-> masked]
          [] OTHER -> [ok |-> FALSE, body_type |-> "none", value |-> masked]

IS_STREAM_MASK == 8

IS_END_OR_ERROR_MASK == 4

\* flags & mask != 0, for a mask of one bit
HasBit(flags, mask) == (flags \div mask) % 2 = 1

\* A u32 is written as its two 16-bit halves, the integers of the model
\* end at 2^31 - 1; an i32 is an integer of the model.
U32(hi, lo) == [hi |-> hi, lo |-> lo]

i32_MIN == -2147483647 - 1

\* `header.body_len as usize`, for lengths below 2^31
as_usize(n) == n.hi * 65536 + n.lo

\* BufMut::put_u32 and Buf::get_u32: big endian
put_u32(n) == <<n.hi \div 256, n.hi % 256, n.lo \div 256, n.lo % 256>>

get_u32(b) == U32(b[1] * 256 + b[2], b[3] * 256 + b[4])

\* BufMut::put_i32 and Buf::get_i32: two's complement, big endian
put_i32(n) ==
    LET m == IF n >= 0 THEN n ELSE (n - i32_MIN)
        top == m \div 16777216
    IN  <<IF n >= 0 THEN top ELSE top + 128,
          (m \div 65536) % 256, (m \div 256) % 256, m % 256>>

get_i32(b) ==
    LET m == (b[1] % 128) * 16777216 + b[2] * 65536 + b[3] * 256 + b[4]
    IN  IF b[1] >= 128 THEN m + i32_MIN ELSE m

Header(is_stream, is_end_or_error, body_type, body_len, request_number) ==
    [flags |-> [is_stream |-> is_stream, is_end_or_error |-> is_end_or_error],
     body_type |-> body_type,
     body_len |-> body_len,
     request_number |-> request_number]

\* Mutant of Header::build: the is_stream flag is not written.
Header_build_without_stream_flag(header) ==
    LET flags == BodyType_as_u8(header.body_type)
                 + (IF header.flags.is_end_or_error THEN IS_END_OR_ERROR_MASK ELSE 0)
    IN  <<flags>> \o put_u32(header.body_len) \o put_i32(header.request_number)

\* Header::build
Header_build(header) ==
    LET flags == BodyType_as_u8(header.body_type)
                 + (IF header.flags.is_stream THEN IS_STREAM_MASK ELSE 0)
                 + (IF header.flags.is_end_or_error THEN IS_END_OR_ERROR_MASK ELSE 0)
    IN  <<flags>> \o put_u32(header.body_len) \o put_i32(header.request_number)

NoHeader == Header(FALSE, FALSE, "none", U32(0, 0), 0)

\* Header::parse: res is "None" (Ok(None)), "Some" (Ok(Some(header))) or the
\* HeaderParseError
Header_parse(data) ==
    IF data = Zeros(Header_SIZE)
    THEN [res |-> "None", header |-> NoHeader]
    ELSE LET flags == data[1]
             body_type == BodyType_from_flags(flags)
             body_len == get_u32(SubSeq(data, 2, 5))
             request_number == get_i32(SubSeq(data, 6, 9))
         IN  IF ~body_type.ok
             THEN [res |-> "InvalidBodyType", header |-> NoHeader]
             ELSE IF request_number = 0
             THEN [res |-> "RequestNumberZero", header |-> NoHeader]
             ELSE [res |-> "Some",
                   header |-> Header(HasBit(flags, IS_STREAM_MASK),
                                     HasBit(flags, IS_END_OR_ERROR_MASK),
                                     body_type.body_type, body_len, request_number)]

\* The values of body_len and request_number that are tried: the ends of
\* the ranges of the test strategies (header.rs 9-12) and the values at
\* which a byte of the encoding changes.
BodyLens ==
    {U32(0, 1), U32(0, 255), U32(0, 256), U32(1, 0), U32(32768, 0),
     U32(65535, 65535)}

RequestNumbers == {1, -1, 255, -256, 2147483647, i32_MIN}

Headers ==
    {Header(is_stream, is_end_or_error, body_type, body_len, request_number) :
        is_stream \in BOOLEAN, is_end_or_error \in BOOLEAN,
        body_type \in BodyTypes, body_len \in BodyLens,
        request_number \in RequestNumbers}

AHeader == Header(FALSE, FALSE, "Json", U32(0, 1), 1)

\* 9 bytes that no Header::build made: the goodbye, an invalid body type, a
\* request number of zero, and flag bytes with bits above the four known
RawHeaders ==
    {Zeros(Header_SIZE),
     <<3>> \o put_u32(U32(0, 1)) \o put_i32(1),
     <<2>> \o put_u32(U32(0, 1)) \o put_i32(0),
     <<0>> \o put_u32(U32(0, 0)) \o put_i32(1),
     <<242>> \o put_u32(U32(0, 7)) \o put_i32(-7),
     <<255>> \o put_u32(U32(0, 7)) \o put_i32(-7)}

NoResult == [res |-> "none", header |-> NoHeader]

HeaderStart(headers) ==
    /\ hdr_pc = "start"
    /\ hdr_header \in headers
    /\ hdr_data = <<>>
    /\ hdr_result = NoResult

\* test::header_parse_build: header.build()
HeaderBuild ==
    /\ hdr_pc = "start"
    /\ hdr_data' = Header_build(hdr_header)
    /\ hdr_pc' = "built"
    /\ UNCHANGED <<hdr_header, hdr_result>>
    /\ UNCHANGED <<streamVars, incrementVars, codecVars, counterVars,
                   nonPacketVars>>

\* 9 bytes that come from the peer
HeaderReceive(data) ==
    /\ hdr_pc = "start"
    /\ hdr_data' = data
    /\ hdr_pc' = "received"
    /\ UNCHANGED <<hdr_header, hdr_result>>
    /\ UNCHANGED <<streamVars, incrementVars, codecVars, counterVars,
                   nonPacketVars>>

\* Header::parse(header_data)
HeaderParse ==
    /\ hdr_pc \in {"built", "received"}
    /\ hdr_result' = Header_parse(hdr_data)
    /\ hdr_pc' = IF hdr_pc = "built" THEN "parsed" ELSE "parsed_received"
    /\ UNCHANGED <<hdr_header, hdr_data>>
    /\ UNCHANGED <<streamVars, incrementVars, codecVars, counterVars,
                   nonPacketVars>>

(***************************************************************************)
(* rpc/base/packet.rs. A String is the sequence of its UTF-8 bytes; a      *)
(* packet number is a u32, a header's request number an i32.               *)
(***************************************************************************)
\* `n as u32` for an i32
i32_as_u32(n) ==
    IF n >= 0 THEN U32(n \div 65536, n % 65536)
    ELSE LET m == n - i32_MIN IN U32(32768 + m \div 65536, m % 65536)

\* `n as i32` for a u32: the value mod 2^32, read as two's complement
u32_as_i32(n) ==
    IF n.hi < 32768 THEN n.hi * 65536 + n.lo
    ELSE (n.hi - 65536) * 65536 + n.lo

\* `-n` for an i32: -i32::MIN panics in a build with overflow checks (as
\* debug builds are) and is i32::MIN in a build without
i32_neg(n, overflow_checks) ==
    IF n = i32_MIN
    THEN [panic |-> overflow_checks, value |-> i32_MIN]
    ELSE [panic |-> FALSE, value |-> 0 - n]

RECURSIVE from_utf8(_)
\* String::from_utf8: whether data is well-formed UTF-8, for sequences of
\* one and two bytes (the strings of the model hold no longer ones)
from_utf8(data) ==
    IF data = <<>> THEN TRUE
    ELSE IF data[1] < 128 THEN from_utf8(Tail(data))
    ELSE IF data[1] \in 194..223 /\ Len(data) >= 2 /\ data[2] \in 128..191
    THEN from_utf8(Drop(data, 2))
    ELSE FALSE

\* enum Body
Body_Blob(data) == [type |-> "Blob", data |-> data]

Body_String(string) == [type |-> "String", data |-> string]

Body_Json(data) == [type |-> "Json", data |-> data]

ParseOk(value) == [ok |-> TRUE, value |-> value, error |-> "none"]

ParseErr(error) == [ok |-> FALSE, value |-> <<>>, error |-> error]

\* Body::parse
Body_parse(body_type, data) ==
    CASE body_type = "Binary" -> ParseOk(Body_Blob(data))
      [] body_type = "Utf8String" ->
            IF from_utf8(data) THEN ParseOk(Body_String(data))
            ELSE ParseErr("StringPlayloadEncoding")
      [] OTHER -> ParseOk(Body_Json(data))

\* Body::into_json
into_json(body) ==
    IF body.type = "Json" THEN ParseOk(body.data) ELSE ParseErr("UnexpectedBodyType")

\* Body::build
Body_build(body) ==
    [body_type |-> CASE body.type = "Blob" -> "Binary"
                     [] body.type = "String" -> "Utf8String"
                     [] OTHER -> "Json",
     data |-> body.data]

(***************************************************************************)
(* serde_json::to_vec and serde_json::from_slice for bool, RequestBody and *)
(* ErrorResponseBody. to_vec writes the compact form, the fields in the    *)
(* order of the struct; from_slice is modelled for that form (serde_json   *)
(* also accepts white space, other field orders and other escapes, which   *)
(* no packet of the model carries).                                        *)
(***************************************************************************)
\* b"true"
JSON_TRUE == <<116, 114, 117, 101>>

\* {"name":
JSON_NAME_FIRST == <<123, 34, 110, 97, 109, 101, 34, 58>>

\* ,"args":[]}
JSON_ARGS_LAST == <<44, 34, 97, 114, 103, 115, 34, 58, 91, 93, 125>>

\* {"message":
JSON_MESSAGE_FIRST == <<123, 34, 109, 101, 115, 115, 97, 103, 101, 34, 58>>

\* ,"name":
JSON_NAME_NEXT == <<44, 34, 110, 97, 109, 101, 34, 58>>

RECURSIVE json_escape(_)
\* the characters of a string between its quotes: " and \ get a \ before
json_escape(string) ==
    IF string = <<>> THEN <<>>
    ELSE (IF Head(string) \in {34, 92} THEN <<92, Head(string)>> ELSE <<Head(string)>>)
            \o json_escape(Tail(string))

json_string(string) == <<34>> \o json_escape(string) \o <<34>>

RECURSIVE json_strings(_)
json_strings(strings) ==
    IF strings = <<>> THEN <<>>
    ELSE IF Len(strings) = 1 THEN json_string(strings[1])
    ELSE json_string(strings[1]) \o <<44>> \o json_strings(Tail(strings))

\* serde_json::to_vec(&RequestBody { name, args }), args = vec![]
RequestBody_to_vec(name) ==
    JSON_NAME_FIRST \o <<91>> \o json_strings(name) \o <<93>> \o JSON_ARGS_LAST

\* serde_json::to_vec(&ErrorResponseBody { name, message })
ErrorResponseBody_to_vec(name, message) ==
    JSON_MESSAGE_FIRST \o json_string(message) \o JSON_NAME_NEXT
        \o json_string(name) \o <<125>>

\* what a reader returns: the value and the position after it
Read(value, next) == [ok |-> TRUE, value |-> value, next |-> next]

ReadFailed == [ok |-> FALSE, value |-> <<>>, next |-> 0]

HasAt(json, i, bytes) ==
    /\ i + Len(bytes) - 1 <= Len(json)
    /\ SubSeq(json, i, i + Len(bytes) - 1) = bytes

RECURSIVE read_chars(_, _, _)
\* the characters of a string up to its closing quote
read_chars(json, i, string) ==
    IF i > Len(json) THEN ReadFailed
    ELSE IF json[i] = 34 THEN Read(string, i + 1)
    ELSE IF json[i] = 92
    THEN IF i + 1 <= Len(json) /\ json[i + 1] \in {34, 92}
         THEN read_chars(json, i + 2, Append(string, json[i + 1]))
         ELSE ReadFailed
    ELSE read_chars(json, i + 1, Append(string, json[i]))

read_string(json, i) ==
    IF i <= Len(json) /\ json[i] = 34 THEN read_chars(json, i + 1, <<>>) ELSE ReadFailed

RECURSIVE read_strings(_, _, _)
\* the elements of an array of strings after its [ or after a comma
read_strings(json, i, strings) ==
    LET s == read_string(json, i)
    IN  IF ~s.ok \/ s.next > Len(json) THEN ReadFailed
        ELSE IF json[s.next] = 93 THEN Read(Append(strings, s.value), s.next + 1)
        ELSE IF json[s.next] = 44
        THEN read_strings(json, s.next + 1, Append(strings, s.value))
        ELSE ReadFailed

read_string_array(json, i) ==
    IF ~HasAt(json, i, <<91>>) THEN ReadFailed
    ELSE IF HasAt(json, i + 1, <<93>>) THEN Read(<<>>, i + 2)
    ELSE read_strings(json, i + 1, <<>>)

\* serde_json::from_slice::<RequestBody>: the name, args being []
RequestBody_from_slice(json) ==
    LET name == read_string_array(json, Len(JSON_NAME_FIRST) + 1)
    IN  IF /\ HasAt(json, 1, JSON_NAME_FIRST)
           /\ name.ok
           /\ HasAt(json, name.next, JSON_ARGS_LAST)
           /\ name.next + Len(JSON_ARGS_LAST) - 1 = Len(json)
        THEN ParseOk(name.value)
        ELSE ParseErr("RequestBody")

\* ErrorResponseBody::parse_json
ErrorResponseBody_parse_json(json) ==
    LET message == read_string(json, Len(JSON_MESSAGE_FIRST) + 1)
        name == read_string(json, message.next + Len(JSON_NAME_NEXT))
    IN  IF /\ HasAt(json, 1, JSON_MESSAGE_FIRST)
           /\ message.ok
           /\ HasAt(json, message.next, JSON_NAME_NEXT)
           /\ name.ok
           /\ HasAt(json, name.next, <<125>>)
           /\ name.next = Len(json)
        THEN ParseOk([name |-> name.value, message |-> message.value])
        ELSE ParseErr("ErrorResponseBody")

\* enum Packet, enum Request and enum Response: side is "Request" or
\* "Response", variant the variant of that enum, and content the fields
\* beside the number
Packet(side, variant, number, content) ==
    [side |-> side, variant |-> variant, number |-> number, content |-> content]

Method(method) == [method |-> method, args |-> <<>>]

NameMessage(name, message) == [name |-> name, message |-> message]

NoContent == <<>>

NoPacket == Packet("none", "none", U32(0, 0), NoContent)

\* Result<Packet, PacketParseError>, and a panic
Parsed(packet) == [res |-> "Ok", packet |-> packet, error |-> "none"]

ParseFailed(error) == [res |-> "Err", packet |-> NoPacket, error |-> error]

ParsePanic == [res |-> "Panic", packet |-> NoPacket, error |-> "none"]

\* the arm of Packet::parse for is_stream && is_end_or_error, of either side
parse_end_or_error(side, number, body) ==
    LET json == into_json(body)
        error == ErrorResponseBody_parse_json(json.value)
    IN  IF ~json.ok THEN ParseFailed(json.error)
        ELSE IF json.value = JSON_TRUE
        THEN Parsed(Packet(side, "StreamEnd", number, NoContent))
        ELSE IF ~error.ok THEN ParseFailed(error.error)
        ELSE Parsed(Packet(side, "StreamError", number,
                           NameMessage(error.value.name, error.value.message)))

\* Packet::parse
Packet_parse(header, body_data, overflow_checks) ==
    LET request_number == header.request_number
        parsed == Body_parse(header.body_type, body_data)
        body == parsed.value
    IN  IF ~parsed.ok THEN ParseFailed(parsed.error)
        ELSE IF request_number > 0
        THEN LET number == i32_as_u32(request_number)
             IN  IF header.flags.is_stream
                 THEN IF header.flags.is_end_or_error
                      THEN parse_end_or_error("Request", number, body)
                      ELSE Parsed(Packet("Request", "StreamItem", number, body))
                 ELSE LET json == into_json(body)
                          request == RequestBody_from_slice(json.value)
                      IN  IF ~json.ok THEN ParseFailed(json.error)
                          ELSE IF ~request.ok THEN ParseFailed(request.error)
                          ELSE Parsed(Packet("Request", "Async", number,
                                             Method(request.value)))
        ELSE LET negated == i32_neg(request_number, overflow_checks)
                 number == i32_as_u32(negated.value)
             IN  IF negated.panic THEN ParsePanic
                 ELSE IF header.flags.is_stream
                 THEN IF header.flags.is_end_or_error
                      THEN parse_end_or_error("Response", number, body)
                      ELSE Parsed(Packet("Response", "StreamItem", number, body))
                 ELSE IF header.flags.is_end_or_error
                 THEN LET json == into_json(body)
                          error == ErrorResponseBody_parse_json(json.value)
                      IN  IF ~json.ok THEN ParseFailed(json.error)
                          ELSE IF ~error.ok THEN ParseFailed(error.error)
                          ELSE Parsed(Packet("Response", "AsyncErr", number,
                                             NameMessage(error.value.name,
                                                         error.value.message)))
                 ELSE Parsed(Packet("Response", "AsyncOk", number, body))

\* struct RawPacket; panic: building it has panicked
RawPacket(request_number, is_stream, is_end_or_error, body) ==
    [panic |-> FALSE, request_number |-> request_number, is_stream |-> is_stream,
     is_end_or_error |-> is_end_or_error, body |-> body]

\* Packet::build_raw
build_raw(packet, overflow_checks) ==
    LET number == u32_as_i32(packet.number)
        negated == i32_neg(number, overflow_checks)
        request_number == IF packet.side = "Request" THEN number ELSE negated.value
        raw ==
            CASE packet.variant = "Async" ->
                    RawPacket(request_number, FALSE, FALSE,
                              Body_Json(RequestBody_to_vec(packet.content.method)))
              [] packet.variant = "AsyncOk" ->
                    RawPacket(request_number, FALSE, FALSE, packet.content)
              [] packet.variant = "AsyncErr" ->
                    RawPacket(request_number, FALSE, TRUE,
                              Body_Json(ErrorResponseBody_to_vec(packet.content.name,
                                                                 packet.content.message)))
              [] packet.variant = "StreamItem" ->
                    RawPacket(request_number, TRUE, FALSE, packet.content)
              [] packet.variant = "StreamEnd" ->
                    RawPacket(request_number, TRUE, TRUE, Body_Json(JSON_TRUE))
              [] OTHER ->
                    RawPacket(request_number, TRUE, TRUE,
                              Body_Json(ErrorResponseBody_to_vec(packet.content.name,
                                                                 packet.content.message)))
    IN  IF packet.side = "Response" /\ negated.panic
        THEN [raw EXCEPT !.panic = TRUE]
        ELSE raw

\* RawPacket::header_and_body
header_and_body(raw) ==
    LET built == Body_build(raw.body)
    IN  [header |-> Header(raw.is_stream, raw.is_end_or_error, built.body_type,
                           U32(0, Len(built.data)), raw.request_number),
         body |-> built.data]

\* RawPacket::build: the header, then the body
RawPacket_build(raw) ==
    LET hb == header_and_body(raw) IN Header_build(hb.header) \o hb.body

\* Packet::build, of a packet whose number is negated without overflow
Packet_build(packet) == RawPacket_build(build_raw(packet, FALSE))

(***************************************************************************)
(* muxrpc/src/packet_stream.rs                                             *)
(***************************************************************************)
\* Option<Result<Packet, NextPacketError>>, and a panic
Ready_Packet(packet) == [type |-> "packet", packet |-> packet, error |-> "none"]

Ready_Err(error) == [type |-> "error", packet |-> NoPacket, error |-> error]

Ready_None == [type |-> "end", packet |-> NoPacket, error |-> "none"]

Ready_Panic == [type |-> "panic", packet |-> NoPacket, error |-> "none"]

\* the item for the result of Packet::parse
Ready_Parsed(parsed) ==
    CASE parsed.res = "Ok" -> Ready_Packet(parsed.packet)
      [] parsed.res = "Err" -> Ready_Err("PacketParse")
      [] OTHER -> Ready_Panic

\* PacketReader::new. `taken` says that the header buffer has given out its
\* nine bytes and was not replaced by a new one.
PacketReader_new ==
    [state |-> "ReadingHeader", header |-> NoHeader, buffer |-> <<>>, taken |-> FALSE]

\* buffer.put(&mut data) on a buffer for size bytes, as ReadBuffer::put does
\* it: the bytes that still fit are moved from data to the buffer; full
\* says that the buffer holds size bytes and hands them out.
buffer_put(buffer, size, data) ==
    LET n == Min(Len(data), size - Len(buffer))
    IN  [buffer |-> buffer \o Take(data, n),
         data |-> Drop(data, n),
         full |-> Len(buffer) + n = size]

RECURSIVE PacketReader_put(_, _, _, _)
\* PacketReader::put: result is Put_None (None) or the item that poll_next
\* returns for Some(result). After the goodbye or an invalid header the
\* reader keeps the header buffer that has given out its nine bytes; what
\* that buffer does with more bytes is not fixed by this file: with fresh
\* it collects nine more, without it it hands out no bytes, as a ReadBuffer
\* does after finish, and the unwrap of try_into panics.
PacketReader_put(reader, data, fresh, overflow_checks) ==
    IF data = <<>>
    THEN [result |-> "none", item |-> Ready_None, reader |-> reader, data |-> data]
    ELSE IF reader.state = "ReadingHeader" /\ reader.taken /\ ~fresh
    THEN [result |-> "some", item |-> Ready_Panic, reader |-> reader, data |-> data]
    ELSE IF reader.state = "ReadingHeader"
    THEN LET put == buffer_put(reader.buffer, Header_SIZE, data)
         IN  IF ~put.full
             THEN [result |-> "none", item |-> Ready_None,
                   reader |-> [reader EXCEPT !.buffer = put.buffer, !.taken = FALSE],
                   data |-> put.data]
             ELSE LET parsed == Header_parse(put.buffer)
                      taken == [reader EXCEPT !.buffer = <<>>, !.taken = TRUE]
                  IN  CASE parsed.res = "None" ->
                              [result |-> "some", item |-> Ready_None,
                               reader |-> taken, data |-> put.data]
                        [] parsed.res \in {"InvalidBodyType", "RequestNumberZero"} ->
                              [result |-> "some",
                               item |-> Ready_Err("InvalidHeader"),
                               reader |-> taken, data |-> put.data]
                        [] parsed.res = "Some" /\ parsed.header.body_len = U32(0, 0) ->
                              [result |-> "some",
                               item |-> Ready_Parsed(Packet_parse(parsed.header, <<>>,
                                                                  overflow_checks)),
                               reader |-> PacketReader_new, data |-> put.data]
                        [] OTHER ->
                              PacketReader_put(
                                  [state |-> "ReadingBody", header |-> parsed.header,
                                   buffer |-> <<>>, taken |-> FALSE],
                                  put.data, fresh, overflow_checks)
    ELSE LET put == buffer_put(reader.buffer, as_usize(reader.header.body_len), data)
         IN  IF ~put.full
             THEN [result |-> "none", item |-> Ready_None,
                   reader |-> [reader EXCEPT !.buffer = put.buffer],
                   data |-> put.data]
             ELSE [result |-> "some",
                   item |-> Ready_Parsed(Packet_parse(reader.header, put.buffer,
                                                      overflow_checks)),
                   reader |-> PacketReader_new, data |-> put.data]

\* Mutant of PacketReader::is_empty: a reader that waits for a body counts
\* as empty while it has no byte of it.
PacketReader_is_empty_without_body(reader) == reader.buffer = <<>>

\* PacketReader::is_empty
PacketReader_is_empty(reader) ==
    IF reader.state = "ReadingHeader" THEN reader.buffer = <<>> ELSE FALSE

RECURSIVE poll_next(_, _, _, _, _)
\* PacketStream::poll_next over a source that is always ready: the loop up
\* to its return
poll_next(source, buffer, reader, fresh, overflow_checks) ==
    IF buffer = <<>> /\ source = <<>>
    THEN [item |-> IF PacketReader_is_empty(reader)
                   THEN Ready_None
                   ELSE Ready_Err("UnexpectedEndOfStream"),
          source |-> source, buffer |-> buffer, reader |-> reader]
    ELSE LET filled == IF buffer = <<>> THEN Head(source) ELSE buffer
             rest == IF buffer = <<>> THEN Tail(source) ELSE source
             put == PacketReader_put(reader, filled, fresh, overflow_checks)
         IN  IF put.result = "some"
             THEN [item |-> put.item, source |-> rest, buffer |-> put.data,
                   reader |-> put.reader]
             ELSE poll_next(rest, put.data, put.reader, fresh, overflow_checks)

\* The packets of the inputs, all of them packets that Packet::parse
\* accepts whatever their body: stream items of a request and of a response,
\* the end of a stream (`true`), and a stream item without a body.
InputPackets ==
    {Packet("Request", "StreamItem", U32(0, 1), Body_Blob(<<1, 2>>)),
     Packet("Response", "StreamItem", U32(0, 1), Body_Json(<<123, 125>>)),
     Packet("Request", "StreamEnd", U32(0, 2), NoContent),
     Packet("Response", "StreamItem", U32(0, 2), Body_Blob(<<>>))}

PacketLists ==
    {<<>>} \cup {<<p>> : p \in InputPackets}
           \cup {<<p, q>> : p \in InputPackets, q \in InputPackets}

GOODBYE_HEADER == Zeros(Header_SIZE)

\* What follows the packets: nothing, a part of a packet (a part of a
\* header, a header without its body, a header and a part of the body), or
\* the goodbye header alone, with the garbage of test::read_packets, or with
\* the serialization of one more packet.
Tails ==
    LET more == Packet_build(Packet("Request", "StreamItem", U32(0, 3),
                                    Body_Blob(<<9, 9, 9, 9>>)))
    IN  [none |-> <<>>,
         header_byte |-> Take(more, 1),
         part_of_header |-> Take(more, Header_SIZE - 1),
         header_only |-> Take(more, Header_SIZE),
         part_of_body |-> Take(more, Header_SIZE + 3),
         goodbye |-> GOODBYE_HEADER,
         goodbye_garbage |-> GOODBYE_HEADER \o [i \in 1..Header_SIZE |-> 1],
         goodbye_packet |-> GOODBYE_HEADER \o more]

Inputs == [packets : PacketLists, tail : DOMAIN Tails]

NoInput == [packets |-> <<>>, tail |-> "none"]

RECURSIVE Serialize(_)
Serialize(packets) ==
    IF packets = <<>> THEN <<>>
    ELSE Packet_build(Head(packets)) \o Serialize(Tail(packets))

InputData(input) == Serialize(input.packets) \o Tails[input.tail]

RECURSIVE Chunks(_, _)
\* packet_data.chunks(chunk_size)
Chunks(data, chunk_size) ==
    IF data = <<>> THEN <<>>
    ELSE <<Take(data, Min(chunk_size, Len(data)))>>
             \o Chunks(Drop(data, chunk_size), chunk_size)

ChunkSizes == {1, 2, 3, 8, 9, 10}

\* The ways the bytes are split: into chunks of one size, into two chunks
\* at any position, and as one chunk.
Chunkings(data, split) ==
    {Chunks(data, chunk_size) : chunk_size \in ChunkSizes}
        \cup {Chunks(data, Len(data) + 1)}
        \cup (IF split
              THEN {<<Take(data, n), Drop(data, n)>> : n \in 1..(Len(data) - 1)}
              ELSE {})

PacketStreamStart(inputs, split) ==
    /\ ps_input \in inputs
    /\ ps_source \in Chunkings(InputData(ps_input), split)
    /\ ps_buffer = <<>>
    /\ ps_reader = PacketReader_new
    /\ ps_out = <<>>
    /\ ps_pc = "polling"

\* the stream has returned None or an error
Finished(out) == \E i \in 1..Len(out) : out[i].type # "packet"

\* the number of polls since then
Repolls(out) ==
    Cardinality({i \in 1..Len(out) :
                    \E j \in 1..(i - 1) : out[j].type # "packet"})

\* One call of poll_next
PollNext ==
    /\ ps_pc = "polling"
    /\ Repolls(ps_out) < MaxRepolls
    /\ \E fresh \in BOOLEAN, overflow_checks \in BOOLEAN :
          LET r == poll_next(ps_source, ps_buffer, ps_reader, fresh, overflow_checks)
          IN  /\ ps_out' = Append(ps_out, r.item)
              /\ ps_source' = r.source
              /\ ps_buffer' = r.buffer
              /\ ps_reader' = r.reader
              /\ ps_pc' = IF r.item = Ready_Panic THEN "panicked" ELSE "polling"
    /\ UNCHANGED <<ps_input, headerVars, incrementVars, codecVars, counterVars,
                   nonPacketVars>>

(***************************************************************************)
(* Client.next_request_number over the whole range of u32 (client.rs).     *)
(* The counter is kept as a U32, since 2^31 and above are no integers of   *)
(* the model checker.                                                      *)
(***************************************************************************)
MaxIssued == 4       \* request numbers whose calls are followed one by one

\* a + b for u32, with the carry out of the 32 bits
u32_add(a, b) ==
    LET lo == a.lo + b.lo
        hi == a.hi + b.hi + (lo \div 65536)
    IN [value |-> U32(hi % 65536, lo % 65536), overflow |-> hi >= 65536]

u32_lt(a, b) == a.hi < b.hi \/ (a.hi = b.hi /\ a.lo < b.lo)

\* Numbers of calls that are made and answered in one step: 2^31 - 3 and
\* 2^31, which bring the counter to i32::MAX and to u32::MAX.
Strides == {U32(32767, 65533), U32(32768, 0)}

\* Client::new, client.rs: next_request_number: 1 and both maps empty
CounterStart ==
    /\ cnt_next = U32(0, 1)
    /\ cnt_pc = "ready"
    /\ cnt_issued = <<>>
    /\ cnt_pending = {}
    /\ cnt_wraps = 0

\* Client::send_async, client.rs 139-140 and 147-148, and
\* Client::start_stream, client.rs 174-175: the call takes the counter as its
\* request number, adds one to the counter and has an entry under the number
\* in pending_async_requests (map "pending_async") or in streams (map
\* "streams").  `+= 1` at u32::MAX panics in a build with overflow checks and
\* wraps to 0 in a build without.
TakeNumber(map, overflow_checks) ==
    /\ cnt_pc = "ready"
    /\ Len(cnt_issued) < MaxIssued
    /\ LET request_number == cnt_next
           sum == u32_add(cnt_next, U32(0, 1))
       IN IF sum.overflow /\ overflow_checks
          THEN /\ cnt_pc' = "panicked"
               /\ UNCHANGED <<cnt_next, cnt_issued, cnt_pending, cnt_wraps>>
          ELSE /\ cnt_next' = sum.value
               /\ cnt_wraps' = IF sum.overflow THEN 1 ELSE cnt_wraps
               /\ cnt_issued' = Append(cnt_issued,
                      [number |-> request_number, map |-> map,
                       in_use |-> request_number \in cnt_pending])
               /\ cnt_pending' = cnt_pending \cup {request_number}
               /\ UNCHANGED cnt_pc
    /\ UNCHANGED <<headerVars, streamVars, incrementVars, codecVars,
                   nonPacketVars>>

\* consume_responses, client.rs 80-87 and 94-104: the response (or the end
\* of the stream) for number takes its entry out of the map
ReleaseNumber(number) ==
    /\ cnt_pc = "ready"
    /\ number \in cnt_pending
    /\ cnt_pending' = cnt_pending \ {number}
    /\ UNCHANGED <<cnt_next, cnt_pc, cnt_issued, cnt_wraps>>
    /\ UNCHANGED <<headerVars, streamVars, incrementVars, codecVars,
                   nonPacketVars>>

\* count calls of send_async, each answered before the next is made, taken
\* as one step: they leave the maps as they were and the counter count
\* higher.  Only taken while the counter has never wrapped and does not wrap
\* in the step, so that each of these calls has a number above every number
\* taken before it.
TakeNumbers(count) ==
    /\ cnt_pc = "ready"
    /\ cnt_wraps = 0
    /\ ~u32_add(cnt_next, count).overflow
    /\ cnt_next' = u32_add(cnt_next, count).value
    /\ UNCHANGED <<cnt_pc, cnt_issued, cnt_pending, cnt_wraps>>
    /\ UNCHANGED <<headerVars, streamVars, incrementVars, codecVars,
                   nonPacketVars>>

(***************************************************************************)
(* increment_be of cipher.rs, applied to buffers of NONCEBYTES bytes       *)
(***************************************************************************)
\* The buffers that are tried: the last k bytes 0xFF, for every k, and the
\* bytes before them 0, 1, 127 or 254.
IncrementInputs ==
    {[i \in 1..NONCEBYTES |-> IF i > NONCEBYTES - k THEN 255 ELSE fill] :
        k \in 0..NONCEBYTES, fill \in {0, 1, 127, 254}}

IncrementStart(inputs) ==
    /\ inc_bytes \in inputs
    /\ inc_result = <<>>

\* test::increment_be_u64: increment_be(&mut bytes)
Increment ==
    /\ inc_result = <<>>
    /\ inc_result' = increment_be(inc_bytes)
    /\ UNCHANGED <<inc_bytes, headerVars, streamVars, codecVars, counterVars,
                   nonPacketVars>>

(***************************************************************************)
(* rpc/base/packet.rs, test::packet_build_parse: a packet is built and the *)
(* bytes are parsed, or the bytes of another peer are parsed.              *)
(***************************************************************************)
\* Packet numbers: small ones, those around 2^16, i32::MAX, and the u32
\* beyond it that the type of the field and the client's counter allow.
Numbers ==
    {U32(0, 1), U32(0, 2), U32(0, 65535), U32(1, 0), U32(32767, 65535),
     U32(32768, 0), U32(32768, 1), U32(65535, 65535), U32(0, 0)}

IsPositiveI32(number) == number.hi < 32768 /\ number # U32(0, 0)

\* Strings: empty, "a", a quote, a backslash, a mix, and "é"
Strings == {<<>>, <<97>>, <<34>>, <<92>>, <<97, 34, 92, 98>>, <<195, 169>>}

Bodies ==
    {Body_Blob(<<>>), Body_Blob(<<0, 255>>), Body_Blob(JSON_TRUE),
     Body_String(<<>>), Body_String(<<195, 169>>),
     Body_Json(<<123, 125>>), Body_Json(JSON_TRUE),
     Body_Json(ErrorResponseBody_to_vec(<<97>>, <<97>>))}

Methods == {<<>>, <<<<97>>>>, <<<<97>>, <<34, 98>>>>}

NameMessages ==
    {NameMessage(<<>>, <<>>), NameMessage(<<97>>, <<195, 169>>),
     NameMessage(<<34>>, <<92>>), NameMessage(<<97, 34, 92, 98>>, <<97>>)}

Packets ==
    UNION {
        {Packet("Request", "Async", n, Method(m)) : m \in Methods}
        \cup {Packet(side, "StreamItem", n, b) :
                side \in {"Request", "Response"}, b \in Bodies}
        \cup {Packet(side, "StreamEnd", n, NoContent) : side \in {"Request", "Response"}}
        \cup {Packet(side, "StreamError", n, e) :
                side \in {"Request", "Response"}, e \in NameMessages}
        \cup {Packet("Response", "AsyncOk", n, b) : b \in Bodies}
        \cup {Packet("Response", "AsyncErr", n, e) : e \in NameMessages}
        : n \in Numbers}

APacket == NoPacket

\* Headers and bodies that a peer may send: every request number of
\* RequestNumbers with every pair of flags and bodies that parse or do not.
ReceivedBodies ==
    {[body_type |-> "Binary", data |-> <<1>>],
     [body_type |-> "Utf8String", data |-> <<97>>],
     [body_type |-> "Utf8String", data |-> <<255>>],
     [body_type |-> "Json", data |-> JSON_TRUE],
     [body_type |-> "Json", data |-> <<123, 125>>],
     [body_type |-> "Json", data |-> RequestBody_to_vec(<<<<97>>>>)],
     [body_type |-> "Json", data |-> ErrorResponseBody_to_vec(<<97>>, <<98>>)]}

CodecStart(packets) ==
    /\ pk_pc = "start"
    /\ pk_packet \in packets
    /\ pk_raw = <<>>
    /\ pk_result = <<>>

\* packet.build(): the bytes of the header and of the body, or a panic
PacketBuild ==
    /\ pk_pc = "start"
    /\ pk_packet # NoPacket
    /\ \E overflow_checks \in BOOLEAN :
          LET raw == build_raw(pk_packet, overflow_checks)
          IN  IF raw.panic
              THEN pk_pc' = "panicked" /\ pk_raw' = pk_raw
              ELSE pk_pc' = "built" /\ pk_raw' = RawPacket_build(raw)
    /\ UNCHANGED <<pk_packet, pk_result>>
    /\ UNCHANGED <<headerVars, streamVars, incrementVars, counterVars,
                   nonPacketVars>>

\* the bytes of a packet that another peer has built arrive
PacketReceive(header, body) ==
    /\ pk_pc = "start"
    /\ pk_packet = NoPacket
    /\ pk_raw' = Header_build(header) \o body
    /\ pk_pc' = "received"
    /\ UNCHANGED <<pk_packet, pk_result>>
    /\ UNCHANGED <<headerVars, streamVars, incrementVars, counterVars,
                   nonPacketVars>>

\* Header::parse of the first nine bytes, then Packet::parse(header, body)
PacketParse ==
    /\ pk_pc \in {"built", "received"}
    /\ \E overflow_checks \in BOOLEAN :
          LET parsed == Header_parse(Take(pk_raw, Header_SIZE))
          IN  pk_result' =
                  IF parsed.res = "Some"
                  THEN Packet_parse(parsed.header, Drop(pk_raw, Header_SIZE),
                                    overflow_checks)
                  ELSE ParseFailed(parsed.res)
    /\ pk_pc' = IF pk_pc = "built" THEN "parsed" ELSE "parsed_received"
    /\ UNCHANGED <<pk_packet, pk_raw>>
    /\ UNCHANGED <<headerVars, streamVars, incrementVars, counterVars,
                   nonPacketVars>>

InitBox ==
    /\ BoxStart(NonceSeeds)
    /\ HsStart({Atom("network", 1)}, {sign_sk(1)}, {sign_sk(3)})
    /\ ClientStart
    /\ ServerStart
    /\ service = RegisteredService
    /\ EndpointStart
    /\ HeaderStart({AHeader})
    /\ PacketStreamStart({NoInput}, FALSE)
    /\ IncrementStart({Zeros(NONCEBYTES)})
    /\ CodecStart({APacket})
    /\ CounterStart

NextBox ==
    \/ \E len \in PayloadLens : EncStartSend(len)
    \/ EncWrite
    \/ EncSendDone
    \/ EncClose
    \/ EncClosePending
    \/ EncCloseReady
    \/ EncDrop
    \/ DecRead
    \/ DecReadEof
    \/ DecPollClosed

SpecBox == InitBox /\ [][NextBox]_vars

InitHeader ==
    /\ BoxStart({Zeros(NONCEBYTES)})
    /\ HsStart({Atom("network", 1)}, {sign_sk(1)}, {sign_sk(3)})
    /\ ClientStart
    /\ ServerStart
    /\ service = RegisteredService
    /\ EndpointStart
    /\ HeaderStart(Headers)
    /\ PacketStreamStart({NoInput}, FALSE)
    /\ IncrementStart({Zeros(NONCEBYTES)})
    /\ CodecStart({APacket})
    /\ CounterStart

NextHeader ==
    \/ HeaderBuild
    \/ \E data \in RawHeaders : HeaderReceive(data)
    \/ HeaderParse

SpecHeader == InitHeader /\ [][NextHeader]_vars

InitCodec ==
    /\ BoxStart({Zeros(NONCEBYTES)})
    /\ HsStart({Atom("network", 1)}, {sign_sk(1)}, {sign_sk(3)})
    /\ ClientStart
    /\ ServerStart
    /\ service = RegisteredService
    /\ EndpointStart
    /\ HeaderStart({AHeader})
    /\ PacketStreamStart({NoInput}, FALSE)
    /\ IncrementStart({Zeros(NONCEBYTES)})
    /\ CodecStart(Packets \cup {NoPacket})
    /\ CounterStart

NextCodec ==
    \/ PacketBuild
    \/ \E n \in RequestNumbers, is_stream \in BOOLEAN, is_end_or_error \in BOOLEAN,
          body \in ReceivedBodies :
          PacketReceive(Header(is_stream, is_end_or_error, body.body_type,
                               U32(0, Len(body.data)), n),
                        body.data)
    \/ PacketParse

SpecCodec == InitCodec /\ [][NextCodec]_vars

InitIncrement ==
    /\ BoxStart({Zeros(NONCEBYTES)})
    /\ HsStart({Atom("network", 1)}, {sign_sk(1)}, {sign_sk(3)})
    /\ ClientStart
    /\ ServerStart
    /\ service = RegisteredService
    /\ EndpointStart
    /\ HeaderStart({AHeader})
    /\ PacketStreamStart({NoInput}, FALSE)
    /\ IncrementStart(IncrementInputs)
    /\ CodecStart({APacket})
    /\ CounterStart

NextIncrement == Increment

SpecIncrement == InitIncrement /\ [][NextIncrement]_vars

InitCounter ==
    /\ BoxStart({Zeros(NONCEBYTES)})
    /\ HsStart({Atom("network", 1)}, {sign_sk(1)}, {sign_sk(3)})
    /\ ClientStart
    /\ ServerStart
    /\ service = RegisteredService
    /\ EndpointStart
    /\ HeaderStart({AHeader})
    /\ PacketStreamStart({NoInput}, FALSE)
    /\ IncrementStart({Zeros(NONCEBYTES)})
    /\ CodecStart({APacket})
    /\ CounterStart

NextCounter ==
    \/ \E map \in {"pending_async", "streams"}, overflow_checks \in BOOLEAN :
           TakeNumber(map, overflow_checks)
    \/ \E number \in cnt_pending : ReleaseNumber(number)
    \/ \E count \in Strides : TakeNumbers(count)

SpecCounter == InitCounter /\ [][NextCounter]_vars

InitPacketStream ==
    /\ BoxStart({Zeros(NONCEBYTES)})
    /\ HsStart({Atom("network", 1)}, {sign_sk(1)}, {sign_sk(3)})
    /\ ClientStart
    /\ ServerStart
    /\ service = RegisteredService
    /\ EndpointStart
    /\ HeaderStart({AHeader})
    /\ PacketStreamStart(Inputs, TRUE)
    /\ IncrementStart({Zeros(NONCEBYTES)})
    /\ CodecStart({APacket})
    /\ CounterStart

NextPacketStream == PollNext

SpecPacketStream == InitPacketStream /\ [][NextPacketStream]_vars

(***************************************************************************)
(* The box stream over a pipe that fails: the reader ends early, as        *)
(* raw_reader.take(cutoff) in the test early_termination does, or a byte   *)
(* of the cipher text is altered on the way.                               *)
(***************************************************************************)
CutSizes == {n \in {0, 1, BOXED_HEADER_SIZE, Len(wire) - 1, Len(wire)} :
                0 <= n /\ n <= Len(wire)}

\* lib.rs 131-139, early_termination: the reader yields only the first bytes
\* of what was written and then reports the end; the result of the writer's
\* send is ignored.
Truncate ==
    /\ ~wire_closed
    /\ enc_pc \in {"idle", "send", "close"}
    /\ \E n \in CutSizes : wire' = Take(wire, n)
    /\ wire_closed' = TRUE
    /\ enc_pc' = "dropped"
    /\ enc_buffer' = <<>>
    /\ UNCHANGED <<enc_nonce, enc_sends, enc_pending, sent, partials, decVars,
                   enc_chunks, tampered, nonce0, seals>>
    /\ UNCHANGED nonBoxVars

\* The first byte of the next boxed header or of the next cipher body is
\* altered before the decryptor reads it; open and open_detached then
\* fail (cipher.rs 84, 105).
Tamper ==
    /\ ~tampered
    /\ dec_state \in {"ReadingHeader", "ReadingBody"}
    /\ dec_data = <<>>
    /\ wire # <<>>
    /\ wire' = [wire EXCEPT ![1] = (@ + 1) % 256]
    /\ tampered' = TRUE
    /\ UNCHANGED <<enc_pc, enc_nonce, enc_buffer, enc_sends, enc_pending, sent,
                   wire_closed, partials, decVars, enc_chunks, nonce0, seals>>
    /\ UNCHANGED nonBoxVars

NextBoxCut ==
    \/ NextBox
    \/ Truncate

SpecBoxCut == InitBox /\ [][NextBoxCut]_vars

NextBoxTamper ==
    \/ NextBox
    \/ Tamper

SpecBoxTamper == InitBox /\ [][NextBoxTamper]_vars

\* The box stream whose writer also pushes an empty vector, as the
\* messages: Vec<Vec<u8>> of test::crypt_stream may hold.
NextBoxPush ==
    \/ NextBox
    \/ EncStartSend(0)

SpecBoxPush == InitBox /\ [][NextBoxPush]_vars

InitHS ==
    /\ BoxStart({Zeros(NONCEBYTES)})
    /\ HsStart(NetworkIds, ServerIdentities, ClientIdentities)
    /\ ClientStart
    /\ ServerStart
    /\ service = RegisteredService
    /\ EndpointStart
    /\ HeaderStart({AHeader})
    /\ PacketStreamStart({NoInput}, FALSE)
    /\ IncrementStart({Zeros(NONCEBYTES)})
    /\ CodecStart({APacket})
    /\ CounterStart

NextHS ==
    \/ CliWriteHello
    \/ CliReadHello
    \/ CliWriteAuthenticate
    \/ CliReadAccept
    \/ CliClose
    \/ SrvReadHello
    \/ SrvWriteHello
    \/ SrvReadAuthenticate
    \/ SrvWriteAccept
    \/ SrvClose

SpecHS == InitHS /\ [][NextHS]_vars

\* The two handshakes are futures of one join!: each is polled again
\* whenever it can make progress.
FairSpecHS == SpecHS /\ WF_vars(NextHS)

InitClient ==
    /\ BoxStart({Zeros(NONCEBYTES)})
    /\ HsStart({Atom("network", 1)}, {sign_sk(1)}, {sign_sk(3)})
    /\ ClientStart
    /\ ServerStart
    /\ service = RegisteredService
    /\ EndpointStart
    /\ HeaderStart({AHeader})
    /\ PacketStreamStart({NoInput}, FALSE)
    /\ IncrementStart({Zeros(NONCEBYTES)})
    /\ CodecStart({APacket})
    /\ CounterStart

NextClient ==
    \/ SendAsyncInsert
    \/ SendAsyncSend
    \/ SendAsyncReturn
    \/ StartStreamNumber
    \/ StartStreamSend
    \/ StartStreamInsert
    \/ CallerCancel
    \/ \E id \in 1..MaxCalls : StreamSink_send(id)
    \/ \E id \in 1..MaxCalls :
          \E message \in {StreamMessage_End,
                          StreamMessage_Error(Error_new("ERROR", "MSG"))} :
              StreamSink_close(id, message)
    \/ \E response \in PeerResponses(responses_sent + 1) : PeerRespond(response)
    \/ PeerEnd
    \/ PeerDropRequests
    \/ ConsumeResponse
    \/ ReaderEnd

SpecClient == InitClient /\ [][NextClient]_vars

InitServer ==
    /\ BoxStart({Zeros(NONCEBYTES)})
    /\ HsStart({Atom("network", 1)}, {sign_sk(1)}, {sign_sk(3)})
    /\ ClientStart
    /\ ServerStart
    /\ service = RegisteredService
    /\ EndpointStart
    /\ HeaderStart({AHeader})
    /\ PacketStreamStart({NoInput}, FALSE)
    /\ IncrementStart({Zeros(NONCEBYTES)})
    /\ CodecStart({APacket})
    /\ CounterStart

NextServer ==
    \/ \E number \in 1..MaxIds : \E msg \in Requests(number) : handle_request(msg)
    \/ RunEnd
    \/ \E t \in 1..MaxRequests : TaskRespond(t)
    \/ \E i \in 1..MaxRequests : SourceStep(i)
    \/ \E i \in 1..MaxRequests : ForwardStep(i)
    \/ \E i \in 1..MaxRequests : ForwardClose(i)
    \/ \E i \in 1..MaxRequests :
          \E sink_error \in {"Done", "Error", "SinkClosed"} : SinkReport(i, sink_error)

SpecServer == InitServer /\ [][NextServer]_vars

\* A connection on which the peer uses the request number 1 only.
NextStream ==
    \/ \E msg \in Requests(1) : handle_request(msg)
    \/ RunEnd
    \/ \E t \in 1..MaxRequests : TaskRespond(t)
    \/ \E i \in 1..MaxRequests : SourceStep(i)
    \/ \E i \in 1..MaxRequests : ForwardStep(i)
    \/ \E i \in 1..MaxRequests : ForwardClose(i)
    \/ \E i \in 1..MaxRequests :
          \E sink_error \in {"Done", "Error", "SinkClosed"} : SinkReport(i, sink_error)

SpecStream == InitServer /\ [][NextStream]_vars

\* a turn of the source task whose item does not wait for the handler: the
\* one error of error_endpoint, or what the one-shot of the endpoint holds
EndpointStep(i) ==
    /\ i \in 1..Len(handles)
    /\ handles[i].kind = "error" \/ handles[i].oneshot.state # "empty"
    /\ SourceStep(i)

\* The source task and the forward task of every stream are spawned on the
\* executor, which polls a task again whenever it can make progress: the
\* source task when the endpoint itself has the next item (a handler's
\* source may stay pending for ever), the forward task when a message is
\* queued (a handler's sink is taken to become ready again).
FairSpecStream ==
    /\ SpecStream
    /\ \A i \in 1..MaxRequests :
          WF_vars(EndpointStep(i)) /\ WF_vars(ForwardStep(i)) /\ WF_vars(ForwardClose(i))

\* Endpoint::new_client, endpoint.rs 74-82: the server of the endpoint runs
\* with Service::new()
InitClientOnly ==
    /\ BoxStart({Zeros(NONCEBYTES)})
    /\ HsStart({Atom("network", 1)}, {sign_sk(1)}, {sign_sk(3)})
    /\ ClientStart
    /\ ServerStart
    /\ service = Service_new
    /\ EndpointStart
    /\ HeaderStart({AHeader})
    /\ PacketStreamStart({NoInput}, FALSE)
    /\ IncrementStart({Zeros(NONCEBYTES)})
    /\ CodecStart({APacket})
    /\ CounterStart

NextClientOnly ==
    \/ \E number \in 1..MaxIds : \E msg \in Requests(number) : handle_request(msg)
    \/ RunEnd
    \/ \E t \in 1..MaxRequests : TaskRespond(t)
    \/ \E i \in 1..MaxRequests : SourceStep(i)
    \/ \E i \in 1..MaxRequests : ForwardStep(i)
    \/ \E i \in 1..MaxRequests : ForwardClose(i)

SpecClientOnly == InitClientOnly /\ [][NextClientOnly]_vars

\* The tasks that send the one response of a request are spawned on the
\* executor and their response is ready: the future of handle_async and
\* the source of error_endpoint do not wait for a handler.
FairSpecClientOnly ==
    /\ SpecClientOnly
    /\ \A t \in 1..MaxRequests : WF_vars(TaskRespond(t))
    /\ \A i \in 1..MaxRequests : WF_vars(EndpointStep(i))

InitEndpoint ==
    /\ BoxStart({Zeros(NONCEBYTES)})
    /\ HsStart({Atom("network", 1)}, {sign_sk(1)}, {sign_sk(3)})
    /\ ClientStart
    /\ ServerStart
    /\ service = RegisteredService
    /\ EndpointStart
    /\ HeaderStart({AHeader})
    /\ PacketStreamStart({NoInput}, FALSE)
    /\ IncrementStart({Zeros(NONCEBYTES)})
    /\ CodecStart({APacket})
    /\ CounterStart

NextEndpoint ==
    \/ \E kind \in {"Request", "Response"} : ReadPacket(kind)
    \/ ReadEnd
    \/ \E error \in NextPacketErrors : ReadFail(error)
    \/ \E outcome \in {"spawn", "route", "fail"} : ServerTake(outcome)
    \/ ServerEnd
    \/ HandlerSend
    \/ HandlerFinish
    \/ ClientCall
    \/ \E ok \in BOOLEAN : ClientConsume(ok)
    \/ \E channel \in {"requests", "responses"} :
          \E ok \in BOOLEAN : SenderWrite(channel, ok)
    \/ \E ok \in BOOLEAN : SenderEnd(ok)
    \/ JoinCall
    \/ JoinPoll
    \/ DropEndpoint

SpecEndpoint == InitEndpoint /\ [][NextEndpoint]_vars

\* The three tasks and the task that awaits join() are spawned on the
\* executor, which polls each of them again whenever it can go on: the
\* server while a request is queued or its stream has ended, the sender
\* while a packet is queued or both its streams have ended, join() when
\* try_join! is ready.  What the peer sends, what the byte sink answers
\* and when a handler ends are not the executor's to decide.
FairSpecEndpoint ==
    /\ SpecEndpoint
    /\ WF_vars(\E outcome \in {"spawn", "route", "fail"} : ServerTake(outcome))
    /\ WF_vars(ServerEnd)
    /\ WF_vars(\E channel \in {"requests", "responses"} :
                  \E ok \in BOOLEAN : SenderWrite(channel, ok))
    /\ WF_vars(\E ok \in BOOLEAN : SenderEnd(ok))
    /\ WF_vars(\E ok \in BOOLEAN : ClientConsume(ok))
    /\ WF_vars(JoinPoll)

(***************************************************************************)
(* Properties of the box stream.                                           *)
(***************************************************************************)
RECURSIVE ConcatData(_)
\* try_concat of the items yielded
ConcatData(items) ==
    IF items = <<>> THEN <<>> ELSE Head(items).data \o ConcatData(Tail(items))

\* C1: once the Decrypt source has ended, every item it yielded is a payload
\* (no error item) and their concatenation is exactly the concatenation of
\* the payloads pushed into the Encrypt sink before it was closed, for
\* payloads below, at and above 4096 bytes.
C1_RoundTrip ==
    (dec_done /\ enc_pc # "dropped") =>
        /\ \A i \in 1..Len(dec_out) : dec_out[i].ok
        /\ ConcatData(dec_out) = sent

\* C2: the decryptor yields ExceededMaxPacketSize only for a header whose
\* length field is greater than 4096, so that no packet of the encryptor
\* (whose bodies have at most 4096 bytes) is rejected.
C2_MaxPacketSizeAccepted ==
    \A i \in 1..Len(dec_out) :
        dec_out[i].err = "ExceededMaxPacketSize" => dec_len > MAX_PACKET_SIZE_BYTES

(***************************************************************************)
(* Properties of the handshake.                                            *)
(***************************************************************************)
SameNetwork == hs_cfg.net_c = hs_cfg.net_s

TrueServerKey == hs_cfg.client_server_pk = sign_pk(hs_cfg.server_sk)

BothDone == c_pc = "done" /\ s_pc = "done"

Symmetric ==
    /\ c_params.send = s_params.receive
    /\ c_params.receive = s_params.send
    /\ c_params.send.key # NoTerm
    /\ c_params.send.nonce # NoTerm
    /\ c_params.receive.key # NoTerm
    /\ c_params.receive.nonce # NoTerm

\* C3: with the same network identifier on both sides and the client
\* configured with the server's true identity key, neither handshake ends
\* with an error, both end, and the BoxStreamParams they return satisfy
\* client.send = server.receive and client.receive = server.send (keys and
\* nonces).
C3_HandshakeSymmetry ==
    /\ []((SameNetwork /\ TrueServerKey) =>
            /\ c_pc = "done" => c_res = "Ok"
            /\ s_pc = "done" => s_res = "Ok"
            /\ BothDone => Symmetric)
    /\ []((SameNetwork /\ TrueServerKey) => <>BothDone)

C3_Witness ==
    /\ SameNetwork /\ TrueServerKey
    /\ BothDone
    /\ c_res = "Ok" /\ s_res = "Ok"
    /\ Symmetric

HELLO_MESSAGE_LEN == 64
CLIENT_AUTHENTICATE_MESSAGE_LEN == 112
ACCEPT_CIPHER_MESSAGE_LEN == 80

RECURSIVE TermLen(_)
\* the number of bytes of a term: keys, tags and signatures have their
\* sodium lengths, a secretbox adds MACBYTES to its plain text
TermLen(t) ==
    CASE t.op \in {"box_pk", "sign_pk"} -> 32    \* PUBLICKEYBYTES
      [] t.op = "auth" -> 32                      \* auth::TAGBYTES
      [] t.op = "sig" -> 64                       \* sign::SIGNATUREBYTES
      [] t.op = "box" ->
            LET parts == t.a[3].a
                F[i \in 0..Len(parts)] ==
                    IF i = 0 THEN 0 ELSE F[i - 1] + TermLen(parts[i])
            IN  MACBYTES + F[Len(parts)]
      [] OTHER -> 0

\* the length of a message, the concatenation of its parts
MessageLen(msg) ==
    LET F[i \in 0..Len(msg)] == IF i = 0 THEN 0 ELSE F[i - 1] + TermLen(msg[i])
    IN  F[Len(msg)]

\* the step writes a message of n bytes to the queue
Writes(queue, queue_after, n) ==
    /\ Len(queue_after) = Len(queue) + 1
    /\ MessageLen(queue_after[Len(queue_after)]) = n

\* the hello and the authenticate message the client has sent pass the
\* server's verifications
ClientHelloVerifies ==
    hello_verify(ServerEndpoint, hello_message(ClientEndpoint)).ok

AuthenticateVerifies ==
    c_st.authenticate # NoAuthenticate /\ s_st.authenticate # NoAuthenticate /\
    verify_and_accept(s_st.authenticate, ServerEndpoint,
        authenticate_message(ClientEndpoint, hs_cfg.client_server_pk,
                             c_st.authenticate)).res = "Ok"

\* the hello and the accept message the server has sent pass the client's
\* verifications
ServerHelloVerifies ==
    hello_verify(ClientEndpoint, hello_message(ServerEndpoint)).ok

AcceptVerifies ==
    c_st.accept # NoAccept /\ s_st.accept # NoAccept /\
    accept_message_verify(hs_cfg.client_server_pk, c_st.accept,
                          accept_message(ServerEndpoint, s_st.accept)) = "Ok"

\* C27: the client writes its hello (64 bytes) first and its authenticate
\* message (112 bytes) after reading the server's hello; the server writes
\* its hello (64 bytes) only after the client's hello verified and its accept
\* (80 bytes) only after the authenticate message decrypted and verified;
\* a side holds BoxStreamParams only after its last verification succeeded;
\* and both handshakes end.
C27_MessageOrder ==
    /\ [][/\ c2s' # c2s /\ Len(c2s') > Len(c2s) =>
               \/ /\ c_pc = "write_hello"
                  /\ c_pc' = "read_hello"
                  /\ Writes(c2s, c2s', HELLO_MESSAGE_LEN)
                  /\ s_pc = "read_hello"
               \/ /\ c_pc = "write_authenticate"
                  /\ c_pc' = "read_accept"
                  /\ Writes(c2s, c2s', CLIENT_AUTHENTICATE_MESSAGE_LEN)
                  /\ ServerHelloVerifies
                  /\ s_pc = "read_authenticate"
          /\ s2c' # s2c /\ Len(s2c') > Len(s2c) =>
               \/ /\ s_pc = "write_hello"
                  /\ s_pc' = "read_authenticate"
                  /\ Writes(s2c, s2c', HELLO_MESSAGE_LEN)
                  /\ ClientHelloVerifies
                  /\ c_pc = "read_hello"
               \/ /\ s_pc = "write_accept"
                  /\ s_pc' = "done"
                  /\ Writes(s2c, s2c', ACCEPT_CIPHER_MESSAGE_LEN)
                  /\ AuthenticateVerifies
                  /\ c_pc = "read_accept"]_vars
    /\ []((s_params # NoParams \/ s_res = "Ok") =>
              ClientHelloVerifies /\ AuthenticateVerifies)
    /\ []((c_params # NoParams \/ c_res = "Ok") =>
              ServerHelloVerifies /\ AcceptVerifies /\ s_pc = "done" /\ s_res = "Ok")
    /\ <>BothDone

\* both sides have returned BoxStreamParams and all four messages are read
C27_Witness ==
    /\ BothDone
    /\ c_res = "Ok" /\ s_res = "Ok"
    /\ c_params # NoParams /\ s_params # NoParams
    /\ c2s = <<>> /\ s2c = <<>>

(***************************************************************************)
(* Properties of the muxrpc client.                                        *)
(***************************************************************************)
\* the step is consume_responses taking the response at the head of
\* response_stream
Consumes(response) ==
    /\ response_stream # <<>>
    /\ response = Head(response_stream)
    /\ response_stream' = Tail(response_stream)

\* what the caller of send_async is to receive for a response
ExpectedAsyncResponse(response) ==
    IF response.type = "AsyncOk"
    THEN [variant |-> response.body.type, data |-> response.body.data,
          error |-> Error_new("", "")]
    ELSE [variant |-> "Error", data |-> Value("", "", 0), error |-> response.error]

\* C5: whatever entries are pending and in whatever order the responses
\* arrive, consuming an AsyncOk or AsyncErr with number n removes pending[n]
\* and nothing else, leaves streams and every channel but the one registered
\* under n as they were, and puts into that one-shot, if its receiver still
\* waits, AsyncResponse::from(body) resp. AsyncResponse::Error.
C5_ResponseCorrelation ==
    [][\A response \in UNION {PeerResponses(k) : k \in 1..MaxResponses} :
          (Consumes(response) /\ response.type \in {"AsyncOk", "AsyncErr"}) =>
              LET n == response.number
                  registered == n \in DOMAIN pending_async_requests
              IN /\ DOMAIN pending_async_requests' = DOMAIN pending_async_requests \ {n}
                 /\ \A m \in DOMAIN pending_async_requests' :
                        pending_async_requests'[m] = pending_async_requests[m]
                 /\ client_streams' = client_streams
                 /\ Len(chans') = Len(chans)
                 /\ \A c \in 1..Len(chans) :
                        (~registered \/ c # pending_async_requests[n]) =>
                            chans'[c] = chans[c]
                 /\ (registered /\ chans[pending_async_requests[n]].rx) =>
                        chans'[pending_async_requests[n]].items =
                            <<ExpectedAsyncResponse(response)>>
      ]_vars

\* Two requests are pending, the response to the second one has been
\* consumed first: its one-shot holds the response, the entry of the first
\* request is still there and its one-shot is empty.
C5_Witness ==
    /\ Len(chans) = 2
    /\ Requested(1) /\ Requested(2)
    /\ 1 \in DOMAIN pending_async_requests
    /\ 2 \notin DOMAIN pending_async_requests
    /\ chans[1].kind = "oneshot" /\ chans[1].items = <<>>
    /\ chans[2].kind = "oneshot" /\ Len(chans[2].items) = 1
    /\ chans[2].items[1].variant = "String"
    /\ reader_pc = "running"

\* C6: send_async and start_stream insert their table entry before the
\* request is handed to the outbound sink: in no interleaving does the
\* reader consume a response with the number of a request that has been
\* handed to the sink while no entry for that number has been inserted yet.
C6_InsertBeforeSend ==
    [][\A n \in 1..MaxCalls :
          (/\ response_stream # <<>>
           /\ response_stream' = Tail(response_stream)
           /\ Head(response_stream).number = n
           /\ Requested(n))
              => n \in inserted]_vars

(***************************************************************************)
(* Properties of the request dispatcher.                                   *)
(***************************************************************************)
\* the places in responses[n] of what the task spawned for the k-th
\* request with number n has sent
SentFor(n, k) ==
    {p \in 1..Len(responses[n]) :
        responses[n][p].inst = 0 /\ responses[n][p].req = k}

\* the tasks spawned for the k-th request with number n that have yet to
\* send
PendingFor(n, k) ==
    {t \in 1..Len(tasks) : tasks[t].number = n /\ tasks[t].req = k}

RECURSIVE HasEntry(_, _)
\* Whether a running dispatcher that has handled the first k of the
\* requests seq, all of one number, holds a stream for the number.
HasEntry(seq, k) ==
    IF k = 0 THEN FALSE
    ELSE CASE seq[k].type = "Async" -> HasEntry(seq, k - 1)
           [] seq[k].type = "Stream" /\ seq[k].message.kind = "Data" ->
                  HasEntry(seq, k - 1) \/ StreamRequest_parses(seq[k].message.body)
           [] seq[k].type = "Stream" /\ is_end(seq[k].message) -> FALSE

\* the entry of responses[n] is the End or Error a stream has sent
StreamTerminal(entry) == entry.inst > 0 /\ is_end(entry.response.message)

\* the place, among the requests received with its number, of the request
\* that an entry of responses[n] goes back to: the request of the task, or
\* the request that opened the stream
Cause(entry) == IF entry.inst > 0 THEN handles[entry.inst].req ELSE entry.req

\* C7: every Request::Async with number n gets exactly one response with
\* number n, sent by the task spawned for it (as long as the task has not
\* sent, it is the only one that will): an AsyncOk or AsyncErr, which is
\* the AsyncErr named METHOD_NOT_FOUND exactly when no handler is
\* registered for the method.  That a handler which has not completed does
\* not hold up later requests or their responses is what C7_Witness shows.
C7_AsyncResponse ==
    \A n \in 1..MaxIds : \A k \in 1..Len(received[n]) :
        received[n][k].type = "Async" =>
            /\ Cardinality(SentFor(n, k)) + Cardinality(PendingFor(n, k)) = 1
            /\ \A p \in SentFor(n, k) :
                  LET r == responses[n][p].response
                      not_found == /\ r.type = "AsyncErr"
                                   /\ r.error.name = "METHOD_NOT_FOUND"
                  IN /\ r.number = n
                     /\ r.type \in {"AsyncOk", "AsyncErr"}
                     /\ not_found <=> received[n][k].method \notin async_handlers

\* Two async requests have been handled; the handler of the first has not
\* completed, the second has its response already.
C7_Witness ==
    /\ Len(received[1]) = 2
    /\ received[1][1] = Request_Async(1, "asyncEcho", 1)
    /\ received[1][2].type = "Async"
    /\ PendingFor(1, 1) # {}
    /\ SentFor(1, 1) = {}
    /\ SentFor(1, 2) # {}
    /\ srv_pc = "running"

\* every stream sends at most one End or Error, has sent it exactly when
\* its source task has ended, and sends nothing after it
OneTerminal ==
    \A i \in 1..Len(handles) :
        LET n == handles[i].id
            own == {p \in 1..Len(responses[n]) : responses[n][p].inst = i}
            terminals == {p \in own : is_end(responses[n][p].response.message)}
        IN /\ Cardinality(terminals) = IF handles[i].src = "done" THEN 1 ELSE 0
           /\ \A p \in terminals : \A q \in own : q <= p

\* C8 as stated: a stream sends exactly one terminal End or Error, and once
\* it is sent no response with the id follows in answer to any stream
\* packet the client sends afterwards on the id.
C8_NothingAfterTerminal ==
    /\ OneTerminal
    /\ \A n \in 1..MaxIds : \A p, q \in 1..Len(responses[n]) :
          (p < q /\ StreamTerminal(responses[n][p])) =>
              \/ Cause(responses[n][q]) <= responses[n][p].seen
              \/ received[n][Cause(responses[n][q])].type = "Async"

\* C8, amended: a stream sends exactly one terminal End or Error and
\* nothing of its own after it; a later response with the id goes back to
\* a request the client sent after the terminal only if that request is an
\* async request, or came after the client's own End or Error had removed
\* the stream (then it is the STREAM_DOES_NOT_EXIST error or comes from a
\* stream opened anew).
C8_TerminalOnce ==
    /\ OneTerminal
    /\ \A n \in 1..MaxIds : \A p, q \in 1..Len(responses[n]) :
          (/\ p < q
           /\ StreamTerminal(responses[n][p])
           /\ Cause(responses[n][q]) > responses[n][p].seen) =>
              LET c == Cause(responses[n][q])
                  opened == handles[responses[n][p].inst].req
              IN \/ received[n][c].type = "Async"
                 \/ \E j \in (opened + 1)..(c - 1) :
                       /\ received[n][j].type = "Stream"
                       /\ is_end(received[n][j].message)

\* A stream has sent its terminal message as its only response; the Data
\* and the End the client sent afterwards have been handled and forwarded,
\* and nothing has been answered.
C8_Witness ==
    /\ Len(responses[1]) = 1
    /\ StreamTerminal(responses[1][1])
    /\ responses[1][1].seen = 1
    /\ Len(received[1]) = 3
    /\ received[1][2] = into_request(StreamMessage_Data(Body_string(Value("", "", 1))), 1)
    /\ received[1][3] = into_request(StreamMessage_End, 1)
    /\ tasks = <<>>
    /\ Len(handles) = 1
    /\ handles[1].incoming = <<>>
    /\ handles[1].src = "done"

\* the decimal digits {:?} prints for a stream id
IdDigits(n) == <<"1", "2", "3", "4", "5", "6", "7", "8", "9">>[n]

\* C9: an End or Error for an id without an entry is answered by exactly
\* one Response::Stream with the error STREAM_DOES_NOT_EXIST, "Stream with
\* ID n does not exist" (sent by the task spawned for that very request, so
\* that each such request gets its own); handling it creates no entry,
\* leaves every stream alone and leaves the dispatcher running.
C9_StreamDoesNotExist ==
    /\ [](\A n \in 1..MaxIds : \A k \in 1..Len(received[n]) :
            (/\ received[n][k].type = "Stream"
             /\ is_end(received[n][k].message)
             /\ ~HasEntry(received[n], k - 1)) =>
                /\ Cardinality(SentFor(n, k)) + Cardinality(PendingFor(n, k)) = 1
                /\ \A p \in SentFor(n, k) :
                      responses[n][p].response =
                          Response_Stream(n, StreamMessage_Error(
                              Error_new("STREAM_DOES_NOT_EXIST",
                                        "Stream with ID " \o IdDigits(n)
                                            \o " does not exist"))))
    /\ [][\A n \in 1..MaxIds :
            (/\ Len(received'[n]) = Len(received[n]) + 1
             /\ received'[n][Len(received'[n])].type = "Stream"
             /\ is_end(received'[n][Len(received'[n])].message)
             /\ n \notin DOMAIN streams) =>
                /\ streams' = streams
                /\ handles' = handles
                /\ srv_pc' = "running"
                /\ Len(tasks') = Len(tasks) + 1
                /\ responses' = responses]_vars

\* An End for id 1 and an Error for id 2, neither with an entry, have each
\* got their error response, and the dispatcher is running.
C9_Witness ==
    /\ received[1] = <<into_request(StreamMessage_End, 1)>>
    /\ received[2] = <<into_request(StreamMessage_Error(Error_new("ERROR", "MSG")), 2)>>
    /\ SentFor(1, 1) # {}
    /\ SentFor(2, 1) # {}
    /\ streams = EmptyMap
    /\ srv_pc = "running"

\* C10 as stated: the table holds an entry for n only while neither side
\* has signalled end or error: the client has not sent End or Error since
\* the stream was opened, and the source of the handler has not sent its
\* terminal message.
C10_EntryUntilEitherEnd ==
    \A n \in DOMAIN streams :
        /\ HasEntry(received[n], Len(received[n]))
        /\ handles[streams[n]].src = "running"

\* C10, amended: while the dispatcher runs, the table holds an entry for n
\* exactly when a Data packet with a stream request has opened a stream for
\* n and the client has sent no End or Error for n since, whatever the
\* source of the handler has sent; the entry is that of the stream opened
\* last.  Once run has returned the table is gone.
C10_EntryUntilClientEnd ==
    /\ srv_pc = "running" =>
          \A n \in 1..MaxIds :
              n \in DOMAIN streams <=> HasEntry(received[n], Len(received[n]))
    /\ srv_pc # "running" => streams = EmptyMap
    /\ \A n \in DOMAIN streams :
          /\ handles[streams[n]].id = n
          /\ \A i \in 1..Len(handles) :
                handles[i].id = n => handles[i].req <= handles[streams[n]].req

\* The source of the stream with id 1 has sent its terminal message, the
\* client has sent nothing since, and the table still holds the entry.
C10_Witness ==
    /\ srv_pc = "running"
    /\ 1 \in DOMAIN streams
    /\ handles[streams[1]].src = "done"
    /\ StreamTerminal(responses[1][Len(responses[1])])

\* the places in responses[handles[i].id] of the End or Error the i-th
\* stream has sent
TerminalOf(i) ==
    {p \in 1..Len(responses[handles[i].id]) :
        /\ responses[handles[i].id][p].inst = i
        /\ is_end(responses[handles[i].id][p].response.message)}

\* the places, among the requests received with its id, of the End and
\* Error messages the client has sent since the i-th stream was opened
ClosesOf(i) ==
    {k \in (handles[i].req + 1)..Len(received[handles[i].id]) :
        /\ received[handles[i].id][k].type = "Stream"
        /\ is_end(received[handles[i].id][k].message)}

\* the place of the client's first End or Error for the i-th stream, 0 if
\* there is none yet
CloseAt(i) ==
    IF ClosesOf(i) = {} THEN 0
    ELSE CHOOSE k \in ClosesOf(i) : \A j \in ClosesOf(i) : k <= j

\* the client has ended the i-th stream with End
ClientEnd(i) ==
    /\ CloseAt(i) # 0
    /\ received[handles[i].id][CloseAt(i)].message.kind = "End"

\* the error a handler raises of its own
HandlerError == Error_new("ERROR", "MSG")

\* a client End that arrives when the server side has ended the stream is
\* answered by nothing: no task is spawned for it and the stream has sent
\* nothing since its terminal message
NoAnswerAfterServerEnd(i) ==
    \A p \in TerminalOf(i) :
        (ClientEnd(i) /\ responses[handles[i].id][p].seen < CloseAt(i)) =>
            /\ SentFor(handles[i].id, CloseAt(i)) = {}
            /\ PendingFor(handles[i].id, CloseAt(i)) = {}
            /\ \A q \in 1..Len(responses[handles[i].id]) :
                  responses[handles[i].id][q].inst = i => q <= p

HalfCloseTerminal ==
    \A i \in 1..Len(handles) :
        handles[i].kind \in {"source", "sink"} =>
            /\ Cardinality(TerminalOf(i)) <= 1
            /\ \A p \in TerminalOf(i) :
                  (ClientEnd(i) /\ responses[handles[i].id][p].seen >= CloseAt(i)) =>
                      LET message == responses[handles[i].id][p].response.message
                          data_before ==
                              \E k \in (handles[i].req + 1)..(CloseAt(i) - 1) :
                                  received[handles[i].id][k].type = "Stream"
                      IN \/ message = StreamMessage_End
                         \/ message = StreamMessage_Error(HandlerError)
                         \/ /\ handles[i].kind = "source"
                            /\ data_before
                            /\ message = StreamMessage_Error(SENT_DATA_TO_SOURCE)
            /\ NoAnswerAfterServerEnd(i)

DataOf(i) ==
    {k \in (handles[i].req + 1)..Len(received[handles[i].id]) :
        /\ received[handles[i].id][k].type = "Stream"
        /\ received[handles[i].id][k].message.kind = "Data"
        /\ CloseAt(i) = 0 \/ k < CloseAt(i)}

\* the terminal message of the i-th stream was sent when the dispatcher had
\* handled Data of the client for the stream
TerminalAfterData(i, p) ==
    \E k \in DataOf(i) : responses[handles[i].id][p].seen >= k

\* the one-shot of stream_to_endpoint holds Data of the client
HoldsData(i) ==
    /\ handles[i].kind = "source"
    /\ handles[i].oneshot.state = "sent"
    /\ handles[i].oneshot.message.kind = "Data"

\* the step is the i-th stream sending a response
Sends(i) ==
    /\ i <= Len(handles)
    /\ Len(responses'[handles[i].id]) = Len(responses[handles[i].id]) + 1
    /\ responses'[handles[i].id][Len(responses'[handles[i].id])].inst = i

\* the message of the response the step sends with the id
SentMessage(id) == responses'[id][Len(responses'[id])].response.message

\* C12 as stated: on a stream of a source handler, once the client has sent
\* Data the stream's terminal message is the Error SENT_DATA_TO_SOURCE, and
\* it is the last response of the stream.
C12_DataToSource ==
    \A i \in 1..Len(handles) :
        handles[i].kind = "source" =>
            \A p \in TerminalOf(i) :
                /\ TerminalAfterData(i, p) =>
                      responses[handles[i].id][p].response.message =
                          StreamMessage_Error(SENT_DATA_TO_SOURCE)
                /\ \A q \in 1..Len(responses[handles[i].id]) :
                      responses[handles[i].id][q].inst = i => q <= p

\* C12, amended: once Data of the client has reached the endpoint of a
\* source handler's stream, the next response of the stream is the Error
\* SENT_DATA_TO_SOURCE, whatever the handler's source would still yield, and
\* it is the stream's last; a source that ends by itself (End, or its own
\* error) before the Data has reached the endpoint ends the stream with
\* that message instead.  Either way the terminal message comes once the
\* client has sent Data.
C12_DataToSourceReached ==
    /\ [](\A i \in 1..Len(handles) :
            handles[i].kind = "source" =>
                \A p \in TerminalOf(i) :
                    /\ HoldsData(i) =>
                          responses[handles[i].id][p].response.message =
                              StreamMessage_Error(SENT_DATA_TO_SOURCE)
                    /\ (TerminalAfterData(i, p) /\ ~HoldsData(i)) =>
                          responses[handles[i].id][p].response.message \in
                              {StreamMessage_End, StreamMessage_Error(HandlerError)}
                    /\ \A q \in 1..Len(responses[handles[i].id]) :
                          responses[handles[i].id][q].inst = i => q <= p)
    /\ [][\A i \in 1..MaxRequests :
            (i <= Len(handles) /\ HoldsData(i) /\ Sends(i)) =>
                SentMessage(handles[i].id) = StreamMessage_Error(SENT_DATA_TO_SOURCE)]_vars
    /\ \A i \in 1..MaxRequests :
          (i <= Len(handles) /\ handles[i].kind = "source" /\ DataOf(i) # {})
              ~> (i <= Len(handles) /\ TerminalOf(i) # {})

\* The source of the handler has yielded an item and is still running when
\* Data of the client reaches the endpoint; the stream has answered with
\* SENT_DATA_TO_SOURCE and ended.
C12_Witness ==
    /\ Len(handles) = 1
    /\ HoldsData(1)
    /\ handles[1].src = "done"
    /\ Len(responses[1]) = 2
    /\ responses[1][1].response.message.kind = "Data"
    /\ responses[1][2].response = into_response(StreamMessage_Error(SENT_DATA_TO_SOURCE), 1)

\* C13: once the sink of a sink handler has reported SinkError::Done, the
\* stream sends exactly one response, Response::Stream End; once it has
\* reported SinkError::Error(e), exactly one response, Response::Stream
\* Error(e); the response does come; and from the report on no message of
\* the client is passed to the handler's sink.
C13_SinkTermination ==
    /\ [](\A i \in 1..Len(handles) :
            (handles[i].kind = "sink" /\ handles[i].reported # "") =>
                /\ handles[i].fwd = "done"
                /\ handles[i].incoming = <<>>
                /\ Cardinality(TerminalOf(i)) = IF handles[i].src = "done" THEN 1 ELSE 0
                /\ \A p \in 1..Len(responses[handles[i].id]) :
                      responses[handles[i].id][p].inst = i =>
                          responses[handles[i].id][p].response.message =
                              IF handles[i].reported = "Done"
                              THEN StreamMessage_End
                              ELSE StreamMessage_Error(HandlerError))
    /\ [][\A i \in 1..MaxRequests :
            (i <= Len(handles) /\ handles[i].kind = "sink" /\ handles[i].reported # "") =>
                /\ handles'[i].delivered = handles[i].delivered
                /\ handles'[i].fed = handles[i].fed
                /\ handles'[i].reported = handles[i].reported]_vars
    /\ \A i \in 1..MaxRequests :
          (i <= Len(handles) /\ handles[i].kind = "sink" /\ handles[i].reported # "")
              ~> (i <= Len(handles) /\ TerminalOf(i) # {})

\* The sink of the handler has taken one Data and then reported
\* SinkError::Error; the stream has answered with that Error, and the Data
\* the client sent next has been handled without reaching the sink.
C13_Witness ==
    /\ Len(handles) = 1
    /\ handles[1].kind = "sink"
    /\ handles[1].reported = "Error"
    /\ Len(handles[1].delivered) = 1
    /\ Len(received[1]) = 3
    /\ received[1][3] = into_request(StreamMessage_Data(Body_string(Value("", "", 1))), 1)
    /\ Len(responses[1]) = 1
    /\ responses[1][1].seen = 2
    /\ responses[1][1].response = into_response(StreamMessage_Error(HandlerError), 1)

(***************************************************************************)
(* Properties of the client's streams.                                     *)
(***************************************************************************)
RECURSIVE SourceItems(_)
\* what the source of a stream is to yield for the Stream messages received
\* with its number: the bodies of the Data up to the first End or Error,
\* and the error of an Error as the last item
SourceItems(log) ==
    IF log = <<>> THEN <<>>
    ELSE CASE Head(log).kind = "Data" ->
                  <<Item_Ok(Head(log).body)>> \o SourceItems(Tail(log))
           [] Head(log).kind = "Error" -> <<Item_Err(Head(log).error)>>
           [] Head(log).kind = "End" -> <<>>

\* C14: the source of a stream that start_stream has returned holds exactly
\* the bodies of the Data received for its number since the request was
\* sent, in their order, an Error received as the last item, and has ended
\* once End or Error has been received; nothing received later reaches it.
C14_StreamSource ==
    \A n \in DOMAIN stream_handles :
        LET ch == chans[stream_handles[n].chan]
        IN /\ ch.items = SourceItems(stream_log[n])
           /\ (\E k \in 1..Len(stream_log[n]) : is_end(stream_log[n][k])) => ~ch.tx

RECURSIVE Messages(_)
\* the messages of the Request::Stream among the requests
Messages(requests) ==
    IF requests = <<>> THEN <<>>
    ELSE IF Head(requests).type = "Stream"
         THEN <<Head(requests).message>> \o Messages(Tail(requests))
         ELSE Messages(Tail(requests))

\* the messages the dispatcher has received for the i-th stream: those
\* after the request that opened it, up to and including the client's
\* first End or Error
MessagesFor(i) ==
    Messages(SubSeq(received[handles[i].id], handles[i].req + 1,
                    IF CloseAt(i) = 0 THEN Len(received[handles[i].id])
                    ELSE CloseAt(i)))

IsPrefix(s, t) == Len(s) <= Len(t) /\ s = SubSeq(t, 1, Len(s))

\* C15: what the forward task of a stream has handed to the stream's
\* inbound sink, followed by what is still queued for it, is exactly the
\* sequence of messages received for the stream after the opening request,
\* up to and including the first End or Error: nothing is lost, doubled or
\* out of order; once the sink has failed or closed, it has received a
\* prefix of that sequence.  The sink of a duplex handler receives these
\* messages as they are, the sink of a sink handler the Data among them.
\* Each turn of the forward task hands over the message at the head of the
\* queue.  Streams with other ids do not enter into it.
C15_InboundOrder ==
    /\ [](\A i \in 1..Len(handles) :
            /\ handles[i].fwd = "running" =>
                  handles[i].fed \o handles[i].incoming = MessagesFor(i)
            /\ IsPrefix(handles[i].fed, MessagesFor(i))
            /\ handles[i].kind = "duplex" => handles[i].delivered = handles[i].fed
            /\ handles[i].kind = "sink" =>
                  handles[i].delivered =
                      SelectSeq(handles[i].fed, LAMBDA m : m.kind = "Data"))
    /\ [][\A i \in 1..MaxRequests :
            (i <= Len(handles) /\ handles'[i].fed # handles[i].fed) =>
                /\ handles[i].incoming # <<>>
                /\ handles'[i].fed = Append(handles[i].fed, Head(handles[i].incoming))]_vars

\* The sink of a duplex handler has received the Data and the End the
\* client sent on stream 1, in that order.
C15_Witness ==
    /\ Len(handles) >= 1
    /\ handles[1].kind = "duplex"
    /\ handles[1].id = 1
    /\ Len(received[1]) = 3
    /\ received[1][2] = into_request(StreamMessage_Data(Body_string(Value("", "", 1))), 1)
    /\ received[1][3] = into_request(StreamMessage_End, 1)
    /\ handles[1].delivered = <<received[1][2].message, received[1][3].message>>

\* C16: the requests handed to the outbound sink with the number n of a
\* stream are the request that opens the stream, then Data only, then at
\* most one End or Error, after which there is nothing; so no Data, End or
\* Error with n comes before the opening request.
C16_OutboundOrder ==
    \A n \in 1..MaxCalls :
        (\E k \in 1..Len(request_sink[n]) : request_sink[n][k].type = "Stream") =>
            /\ \A k \in 1..Len(request_sink[n]) : request_sink[n][k].type = "Stream"
            /\ request_sink[n][1].message.kind = "Data"
            /\ StreamRequest_parses(request_sink[n][1].message.body)
            /\ \A k \in 2..Len(request_sink[n]) :
                  /\ request_sink[n][k].message.kind = "Data" =>
                        ~StreamRequest_parses(request_sink[n][k].message.body)
                  /\ is_end(request_sink[n][k].message) => k = Len(request_sink[n])

\* Stream 1 has been opened, Data has been sent on it and it has been
\* closed with an Error; the StreamSink is used up.
C16_Witness ==
    /\ Len(request_sink[1]) = 3
    /\ request_sink[1][1] = StreamRequest_into_request("duplexAdd", "duplex", 1, 1)
    /\ request_sink[1][2].message.kind = "Data"
    /\ request_sink[1][3].message.kind = "Error"
    /\ 1 \in DOMAIN stream_handles
    /\ ~stream_handles[1].sink

\* the name of the error a request fails with before it reaches a handler:
\* METHOD_NOT_FOUND, ArgumentError, or "" if it reaches the handler
FailureName(method, args, registered) ==
    IF method \notin registered THEN "METHOD_NOT_FOUND"
    ELSE IF args # 1 THEN "ArgumentError"
    ELSE ""

\* C17: an async request for an unknown method or with arguments that do
\* not deserialize gets one AsyncErr with its number, named METHOD_NOT_FOUND
\* resp. ArgumentError; a stream request that fails in this way gets one
\* Response::Stream Error with its id and that name, and nothing else; an
\* error a handler returns is sent as AsyncErr resp. Response::Stream Error
\* with the number of its request.  None of this ends the dispatcher or
\* touches the stream table: handling such a request leaves run looping and
\* the streams of other ids in place, and no step that sends a response
\* changes either.
C17_HandlerFailures ==
    /\ [](\A n \in 1..MaxIds : \A k \in 1..Len(received[n]) :
            received[n][k].type = "Async" =>
                LET name == FailureName(received[n][k].method, received[n][k].args,
                                        {"asyncEcho"})
                IN /\ Cardinality(SentFor(n, k)) + Cardinality(PendingFor(n, k)) = 1
                   /\ \A p \in SentFor(n, k) :
                         LET r == responses[n][p].response
                         IN /\ r.number = n
                            /\ name # "" =>
                                  r.type = "AsyncErr" /\ r.error.name = name
                            /\ (name = "" /\ r.type = "AsyncErr") =>
                                  r.error = HandlerError)
    /\ [](\A i \in 1..Len(handles) :
            LET n == handles[i].id
                request == received[n][handles[i].req].message.body.data
                name == FailureName(request.name, request.args,
                                    {"source", "sink", "duplex"})
                own == {p \in 1..Len(responses[n]) : responses[n][p].inst = i}
            IN /\ \A p \in own : responses[n][p].response.type = "Stream"
               /\ name # "" =>
                     /\ Cardinality(own) <= 1
                     /\ \A p \in own :
                           /\ responses[n][p].response.message.kind = "Error"
                           /\ responses[n][p].response.message.error.name = name)
    /\ [][\A n \in 1..MaxIds :
            (/\ Len(received'[n]) = Len(received[n]) + 1
             /\ LET m == received'[n][Len(received'[n])]
                IN \/ m.type = "Async"
                   \/ /\ m.message.kind = "Data"
                      /\ StreamRequest_parses(m.message.body)) =>
                /\ srv_pc' = "running"
                /\ \A o \in DOMAIN streams : o \in DOMAIN streams' /\ streams'[o] = streams[o]
                /\ \A i \in 1..Len(handles) : handles'[i].id = handles[i].id
                /\ responses' = responses]_vars
    /\ [][responses' # responses => (srv_pc' = srv_pc /\ streams' = streams)]_vars

\* An async request for an unknown method and a stream request whose
\* arguments do not deserialize have got their error responses; the async
\* request that came after them has been served by its handler.
C17_Witness ==
    /\ srv_pc = "running"
    /\ received[1] = <<Request_Async(1, "missing", 1), Request_Async(1, "asyncEcho", 1)>>
    /\ received[2] = <<StreamRequest_into_request("source", "source", 0, 2)>>
    /\ Len(responses[1]) = 2
    /\ responses[1][1].response.type = "AsyncErr"
    /\ responses[1][2].response.type = "AsyncOk"
    /\ responses[1][2].seen = 2
    /\ Len(responses[2]) = 1
    /\ responses[2][1].seen = 1
    /\ responses[2][1].response =
           into_response(StreamMessage_Error(deserialize_arguments_error), 2)
    /\ 2 \in DOMAIN streams

(***************************************************************************)
(* Properties of the endpoint.                                             *)
(***************************************************************************)
\* the order in which try_join! polls the three tasks, endpoint.rs 95-99
JoinOrder == <<"reader", "sender", "server">>

\* the tasks that have returned an error
FailedTasks == {ep_failed[k] : k \in 1..Len(ep_failed)}

\* join() returns in this step
JoinReturns == ep_join = "pending" /\ ep_join' # "pending"

\* the packet stream of the reader yields error in this step
FramingFailure(error) ==
    /\ ep_reader = "running"
    /\ ep_failed' = Append(ep_failed, "reader")
    /\ error = ep_reader'

CleanShutdown ==
    /\ ep_reader = "Ok"
    /\ ep_in_requests = 0
    /\ ep_handlers = 0
    /\ ep_consumer = "running"
    /\ ep_failed = <<>>

\* C19: once the inbound byte stream has ended cleanly and every handler
\* has finished, a join() that is awaited returns Ok(()) (unless a task
\* fails or panics on the way).
C19_CleanShutdown ==
    (ep_join = "pending" /\ CleanShutdown) ~>
        (ep_join = "Ok" \/ ep_failed # <<>> \/ ep_consumer # "running")

\* join() never returns Ok(()): the sender task ends only after the client
\* is dropped, which join() does when it returns
C19_JoinNeverOk == ep_join # "Ok" /\ (ep_join = "pending" => ep_sender # "Ok")

(***************************************************************************)
(* Backpressure of a handler's sink.  The sink of the stream handles[i] is *)
(* not ready while ForwardStep(i) is not taken; what it has not taken is   *)
(* handles[i].incoming.                                                    *)
(***************************************************************************)
\* the dispatcher handles a request with this number in this step
Handles(number) ==
    /\ requests_handled' = requests_handled + 1
    /\ Len(received'[number]) = Len(received[number]) + 1

\* the request handled in this step
Handled(number) == received'[number][Len(received'[number])]

\* C20: a handler's sink that is not ready does not hold up the
\* dispatcher: while server::run is running it can take every request,
\* whatever is queued for the sinks; a message for a stream is queued
\* behind what its sink has not taken; and handling a request of one
\* number leaves the streams of the other numbers as they are.
C20_NoStarvation ==
    /\ [](srv_pc = "running" /\ requests_handled < MaxRequests =>
             \A number \in 1..MaxIds : \A msg \in Requests(number) :
                 ENABLED handle_request(msg))
    /\ [][\A number \in 1..MaxIds :
             Handles(number) /\ number \in DOMAIN streams =>
                 LET i == streams[number]
                 IN handles[i].fwd = "running" /\ Handled(number).type = "Stream" =>
                        handles'[i].incoming =
                            Append(handles[i].incoming, Handled(number).message)]_vars
    /\ [][\A number \in 1..MaxIds :
             Handles(number) =>
                 \A i \in 1..Len(handles) :
                     handles[i].id # number => handles'[i] = handles[i]]_vars

\* the sink of stream 1 has taken nothing of what is queued for it, and a
\* request with number 2 has been handled and answered
C20_Witness ==
    /\ Len(handles) = 1
    /\ handles[1].id = 1 /\ handles[1].kind = "sink"
    /\ handles[1].fwd = "running"
    /\ handles[1].fed = <<>> /\ handles[1].incoming # <<>>
    /\ received[2] # <<>> /\ responses[2] # <<>>

(***************************************************************************)
(* Properties of an endpoint without a server (Endpoint::new_client).      *)
(***************************************************************************)
\* the k-th request received with number n has opened a stream
Opened(n, k) ==
    \E i \in 1..Len(handles) : handles[i].id = n /\ handles[i].req = k

\* the request is a stream request that parses
IsStreamRequest(request) ==
    /\ request.type = "Stream"
    /\ request.message.kind = "Data"
    /\ StreamRequest_parses(request.message.body)

\* the places in responses[n] of the responses that go back to the k-th
\* request received with number n
AnswersTo(n, k) ==
    {p \in 1..Len(responses[n]) : Cause(responses[n][p]) = k}

\* the error response named METHOD_NOT_FOUND for a request
MethodNotFound(request) ==
    IF request.type = "Async"
    THEN LET error == method_not_found_error(request.method)
         IN Response_AsyncErr(request.number, error.name, error.message)
    ELSE into_response(
             StreamMessage_Error(
                 method_not_found_error(request.message.body.data.name)),
             request.number)

\* the name of the error a response carries, "" if it carries none
ErrorName(response) ==
    CASE response.type = "AsyncErr" -> response.error.name
      [] response.type = "Stream" /\ response.message.kind = "Error" ->
             response.message.error.name
      [] OTHER -> ""

\* the response of the k-th request with number n is still to be sent
Unanswered(n, k) ==
    \/ PendingFor(n, k) # {}
    \/ \E i \in 1..Len(handles) :
          handles[i].id = n /\ handles[i].req = k /\ handles[i].src = "running"

\* C21: with an empty registry every Async request, and every stream
\* request that arrives while its number has no stream, is answered with
\* exactly one response, the error named METHOD_NOT_FOUND with the number
\* of the request, and server::run is running after it has handled the
\* request.  The responses that are sent stay sent, so that every request
\* is answered in the end says that from some time on none is unanswered.
C21_ClientOnly ==
    /\ [](\A n \in 1..MaxIds : \A k \in 1..Len(received[n]) :
            LET request == received[n][k]
            IN /\ (IsStreamRequest(request) /\ ~HasEntry(received[n], k - 1)) =>
                      Opened(n, k)
               /\ (request.type = "Async" \/ Opened(n, k)) =>
                      /\ Cardinality(AnswersTo(n, k)) <= 1
                      /\ AnswersTo(n, k) = {} <=> Unanswered(n, k)
                      /\ \A p \in AnswersTo(n, k) :
                            /\ responses[n][p].response = MethodNotFound(request)
                            /\ ErrorName(responses[n][p].response) =
                                   "METHOD_NOT_FOUND")
    /\ [][\A n \in 1..MaxIds :
             (Handles(n) /\ (Handled(n).type = "Async" \/ IsStreamRequest(Handled(n)))) =>
                 srv_pc' = "running"]_vars
    /\ <>[](\A n \in 1..MaxIds : \A k \in 1..Len(received[n]) :
              (received[n][k].type = "Async" \/ Opened(n, k)) =>
                  AnswersTo(n, k) # {})

\* An Async request and a stream request have been answered with their one
\* METHOD_NOT_FOUND error each, a third request has been handled since,
\* and server::run is running.
C21_Witness ==
    /\ service = Service_new
    /\ srv_pc = "running"
    /\ Len(received[1]) = 1 /\ Len(received[2]) = 2
    /\ received[1][1] = Request_Async(1, "asyncEcho", 1)
    /\ received[2][1] = StreamRequest_into_request("source", "source", 1, 2)
    /\ Cardinality(AnswersTo(1, 1)) = 1
    /\ Cardinality(AnswersTo(2, 1)) = 1
    /\ responses[1][1].response = MethodNotFound(received[1][1])
    /\ responses[2][1].response = MethodNotFound(received[2][1])

(***************************************************************************)
(* Properties of the client's reader.                                      *)
(***************************************************************************)
\* C22: when the reader takes an AsyncOk or AsyncErr whose number has no
\* entry in pending_async_requests, it leaves both tables as they are and
\* goes on running.
C22_UnknownAsyncDropped ==
    [][\A response \in UNION {PeerResponses(k) : k \in 1..MaxResponses} :
          (/\ Consumes(response)
           /\ response.type \in {"AsyncOk", "AsyncErr"}
           /\ response.number \notin DOMAIN pending_async_requests) =>
              /\ pending_async_requests' = pending_async_requests
              /\ client_streams' = client_streams
              /\ reader_pc' = "running"]_vars

(***************************************************************************)
(* Properties of the header codec                                          *)
(***************************************************************************)
\* C30: for a Header with one of the three body types, any flags, body_len
\* in [1, u32::MAX] and request_number # 0, parse(build(h)) = Some(h) and
\* build(h) is not all-zero; the all-zero 9 bytes parse to None.
C30_HeaderRoundTrip ==
    /\ hdr_pc \in {"built", "parsed"} =>
          /\ Len(hdr_data) = Header_SIZE
          /\ hdr_data # Zeros(Header_SIZE)
    /\ hdr_pc = "parsed" => hdr_result = [res |-> "Some", header |-> hdr_header]
    /\ (hdr_pc = "parsed_received" /\ hdr_data = Zeros(Header_SIZE)) =>
          hdr_result.res = "None"

\* a response header with both flags, the largest body_len and the least
\* request number has gone through build and parse
C30_Witness ==
    /\ hdr_pc = "parsed"
    /\ hdr_header = Header(TRUE, TRUE, "Json", U32(65535, 65535), i32_MIN)
    /\ hdr_data = <<14, 255, 255, 255, 255, 128, 0, 0, 0>>
    /\ hdr_result.res = "Some"
    /\ hdr_result.header = hdr_header

\* the goodbye header has been parsed
C30_GoodbyeParsed ==
    /\ hdr_pc = "parsed_received"
    /\ hdr_data = Zeros(Header_SIZE)
    /\ hdr_result.res = "None"

(***************************************************************************)
(* Properties of the packet stream                                         *)
(***************************************************************************)
EndsWithGoodbye == ps_input.tail \in {"goodbye", "goodbye_garbage", "goodbye_packet"}

EndsWithPartialPacket ==
    ps_input.tail \in {"header_byte", "part_of_header", "header_only", "part_of_body"}

Yielded(packets) == [i \in 1..Len(packets) |-> Ready_Packet(packets[i])]

\* the results of the polls up to the first that was not a packet, that one
\* included
UntilFinished(out) ==
    IF Finished(out)
    THEN Take(out, CHOOSE i \in 1..Len(out) :
                     /\ out[i].type # "packet"
                     /\ \A j \in 1..(i - 1) : out[j].type = "packet")
    ELSE out

\* the stream yields the packets of the input in order, and with last what
\* it returns after them
YieldsPacketsThen(last) ==
    /\ IsPrefix(UntilFinished(ps_out), Append(Yielded(ps_input.packets), last))
    /\ Finished(ps_out) =>
          UntilFinished(ps_out) = Append(Yielded(ps_input.packets), last)

C28_UntilEnd == EndsWithGoodbye => YieldsPacketsThen(Ready_None)

\* two packets, the goodbye header and the garbage reached the stream in
\* more than three chunks, and the stream has ended after the two packets
C28_Witness ==
    /\ ps_input.tail = "goodbye_garbage"
    /\ Len(ps_input.packets) = 2
    /\ ps_out = Append(Yielded(ps_input.packets), Ready_None)
    /\ ps_source # <<>>
    /\ Len(ps_buffer) \in 1..(Header_SIZE - 1)

C29_CleanEnd ==
    /\ ps_input.tail = "none"
    /\ Len(ps_input.packets) = 2
    /\ ps_out = Append(Yielded(ps_input.packets), Ready_None)

(***************************************************************************)
(* Properties of the nonce counter                                         *)
(***************************************************************************)
\* A buffer of 24 bytes read as a big-endian number, written as eight
\* digits of 24 bits (the integers of the model end at 2^31 - 1).
Limbs(bytes) ==
    [j \in 1..(Len(bytes) \div 3) |->
        bytes[3 * j - 2] * 65536 + bytes[3 * j - 1] * 256 + bytes[3 * j]]

LimbBase == 256 * 256 * 256

RECURSIVE LimbsAdd(_, _, _)
\* limbs + n with the carry taken from digit j up; the carry out of the
\* first digit is lost (mod 2^192)
LimbsAdd(limbs, n, j) ==
    IF j = 0 \/ n = 0 THEN limbs
    ELSE LET sum == limbs[j] + n
         IN  LimbsAdd([limbs EXCEPT ![j] = sum % LimbBase], sum \div LimbBase, j - 1)

\* the number of bytes plus n, mod 2^(8 * Len(bytes))
Plus(bytes, n) == LimbsAdd(Limbs(bytes), n, Len(bytes) \div 3)

AllOnes(bytes) == \A i \in 1..Len(bytes) : bytes[i] = 255

\* C33: increment_be turns the 24-byte big-endian number v into v + 1, with
\* the carries through all bytes; the all-0xFF buffer becomes all-zero.
C33_IncrementBe ==
    inc_result # <<>> =>
        /\ Len(inc_result) = NONCEBYTES
        /\ \A i \in 1..NONCEBYTES : inc_result[i] \in 0..255
        /\ Limbs(inc_result) = Plus(inc_bytes, 1)
        /\ ~AllOnes(inc_bytes) =>
              \E j \in 1..8 :
                 /\ Limbs(inc_result)[j] = Limbs(inc_bytes)[j] + 1
                 /\ \A l \in 1..8 :
                       /\ l < j => Limbs(inc_result)[l] = Limbs(inc_bytes)[l]
                       /\ l > j => /\ Limbs(inc_bytes)[l] = LimbBase - 1
                                   /\ Limbs(inc_result)[l] = 0
        /\ AllOnes(inc_bytes) => inc_result = Zeros(NONCEBYTES)

\* the carry has gone through the last 23 bytes
C33_Witness ==
    /\ inc_bytes = <<127>> \o [i \in 1..(NONCEBYTES - 1) |-> 255]
    /\ inc_result = <<128>> \o Zeros(NONCEBYTES - 1)

\* the largest number has wrapped to zero
C33_Wrapped ==
    /\ AllOnes(inc_bytes)
    /\ inc_result = Zeros(NONCEBYTES)

(***************************************************************************)
(* Properties of the nonces of the two directions' Params                  *)
(***************************************************************************)
\* the number of packets the decryptor has opened and yielded
Consumed == Cardinality({i \in 1..Len(dec_out) : dec_out[i].ok})

\* the seals of the i-th data packet (i = 0, 1, ...): body, then header
BodySeal(i) == seals[2 * i + 1]

HeaderSeal(i) == seals[2 * i + 2]

\* C36: with n0 the nonce both sides start from, the i-th data packet is
\* sealed with header nonce n0 + 2i and body nonce n0 + 2i + 1, the
\* encryptor's counter after k packets is n0 + 2k (mod 2^192), a decryptor
\* that has consumed k packets holds n0 + 2k, the goodbye is sealed and
\* opened with n0 + 2k and advances neither counter, and no nonce seals
\* two different plain texts.
C36_NonceLockstep ==
    LET k == Len(enc_chunks)
    IN  /\ Limbs(enc_nonce) = Plus(nonce0, 2 * k)
        /\ Len(seals) >= 2 * k
        /\ \A i \in 0..(k - 1) :
              /\ Limbs(HeaderSeal(i).nonce) = Plus(nonce0, 2 * i)
              /\ Take(HeaderSeal(i).plain, 2) = u16_to_be_bytes(Len(enc_chunks[i + 1]))
              /\ Limbs(BodySeal(i).nonce) = Plus(nonce0, 2 * i + 1)
              /\ BodySeal(i).plain = enc_chunks[i + 1]
        /\ \A j \in (2 * k + 1)..Len(seals) :
              /\ seals[j].plain = GOODBYE_PACKET
              /\ Limbs(seals[j].nonce) = Plus(nonce0, 2 * k)
              /\ enc_pc \in {"close", "closed"}
        /\ dec_state = "ReadingHeader" => Limbs(dec_nonce) = Plus(nonce0, 2 * Consumed)
        /\ dec_state = "ReadingBody" => Limbs(dec_nonce) = Plus(nonce0, 2 * Consumed + 1)
        /\ (dec_state = "ReadingHeader" /\ Consumed = k) => dec_nonce = enc_nonce
        /\ (dec_done /\ Consumed = Len(dec_out)) =>
              /\ Limbs(dec_nonce) = Plus(nonce0, 2 * Consumed)
              /\ dec_nonce = enc_nonce
        /\ \A i, j \in 1..Len(seals) :
              seals[i].nonce = seals[j].nonce => seals[i].plain = seals[j].plain

\* two packets and the goodbye have been sealed and opened, starting from a
\* nonce whose last byte carries
C36_Witness ==
    /\ nonce0 = Zeros(NONCEBYTES - 1) \o <<255>>
    /\ Len(enc_chunks) = 2
    /\ Len(seals) > 4
    /\ dec_done
    /\ Consumed = 2
    /\ Len(dec_out) = 2
    /\ dec_nonce = enc_nonce

(***************************************************************************)
(* Properties of the end of the Decrypt source.                            *)
(***************************************************************************)
\* every item the source has yielded is a payload
NoErrorItem == \A i \in 1..Len(dec_out) : dec_out[i].ok

\* in this step the decryptor fills its header buffer with a boxed header
\* that opens to GOODBYE_PACKET
GoodbyeOpened ==
    /\ dec_state = "ReadingHeader"
    /\ \E n \in 1..Len(wire) :
          /\ Len(dec_data) + n = BOXED_HEADER_SIZE
          /\ wire' = Drop(wire, n)
          /\ LET header == open(dec_data \o Take(wire, n), dec_nonce, TheKey)
             IN header.ok /\ header.data = GOODBYE_PACKET

\* C23: when the decryptor opens a goodbye header, the source ends in the
\* same poll without an item, no error item has been yielded and the
\* payloads it has yielded are all that was sent; from then on it yields
\* nothing and takes no byte from the reader.
C23_Goodbye ==
    /\ [][GoodbyeOpened =>
             /\ dec_done' /\ dec_state' = "Closed"
             /\ dec_out' = dec_out
             /\ NoErrorItem
             /\ ConcatData(dec_out) = sent]_vars
    /\ [][(dec_done /\ NoErrorItem) =>
             /\ UNCHANGED decVars
             /\ IsPrefix(wire, wire')]_vars

\* the source has ended on the goodbye after two payloads, and bytes that
\* were written after the goodbye lie unread in the pipe
C23_Witness ==
    /\ dec_done /\ NoErrorItem
    /\ Len(dec_out) = 2
    /\ ConcatData(dec_out) = sent
    /\ wire # <<>>

(***************************************************************************)
(* Properties of a byte stream that ends early                             *)
(***************************************************************************)
\* the bytes the reader supplies in all: those read and those still to read
Delivered == dec_count + Len(wire)

RECURSIVE PacketsSize(_)
PacketsSize(payloads) ==
    IF payloads = <<>> THEN 0
    ELSE BOXED_HEADER_SIZE + Len(Head(payloads)) + PacketsSize(Tail(payloads))

\* the number of packets that lie wholly within the first n bytes
CompletePackets(n) ==
    CHOOSE k \in 0..Len(enc_chunks) :
        /\ PacketsSize(Take(enc_chunks, k)) <= n
        /\ k < Len(enc_chunks) => PacketsSize(Take(enc_chunks, k + 1)) > n

\* The reader has ended within a packet: within a data packet, or within
\* the goodbye that follows the last data packet.
EndsMidPacket ==
    /\ wire_closed
    /\ ~tampered
    /\ LET k == CompletePackets(Delivered)
           rest == Delivered - PacketsSize(Take(enc_chunks, k))
       IN  /\ rest > 0
           /\ k = Len(enc_chunks) => rest < BOXED_HEADER_SIZE

PrecedingPayloads ==
    [i \in 1..CompletePackets(Delivered) |-> Ok(enc_chunks[i])]

\* C24: when the byte stream ends within a packet, the source yields the
\* payloads of the complete packets before the cut, in order, and then
\* Err(Io(UnexpectedEof)) as its last item.
C24_EarlyTermination ==
    (EndsMidPacket /\ dec_state = "Closed") =>
        dec_out = Append(PrecedingPayloads, Err("Io(UnexpectedEof)"))

\* the same, for streams whose packets carry fewer than 4096 bytes
C24_BelowMaxPacketSize ==
    (/\ EndsMidPacket
     /\ dec_state = "Closed"
     /\ \A i \in 1..Len(enc_chunks) : Len(enc_chunks[i]) < MAX_PACKET_SIZE_BYTES) =>
        dec_out = Append(PrecedingPayloads, Err("Io(UnexpectedEof)"))

C24_BelowMaxWitness ==
    /\ EndsMidPacket
    /\ dec_state = "Closed"
    /\ CompletePackets(Delivered) >= 1
    /\ \A i \in 1..Len(enc_chunks) : Len(enc_chunks[i]) < MAX_PACKET_SIZE_BYTES
    /\ dec_out = Append(PrecedingPayloads, Err("Io(UnexpectedEof)"))

(***************************************************************************)
(* Properties of the Closed state of the Decrypt source                    *)
(***************************************************************************)
DecryptErrors == {"Io(UnexpectedEof)", "UnboxHeader", "UnboxBody",
                  "ExceededMaxPacketSize"}

\* C26: an error item is one of the four fatal errors, it is the last item
\* of the source and leaves the decryptor Closed, as the goodbye does; from
\* Closed the decryptor never leaves, reads nothing and yields nothing, and
\* a poll in Closed returns the end of the stream.
C26_ClosedForGood ==
    /\ [](\A i \in 1..Len(dec_out) :
            ~dec_out[i].ok =>
                /\ dec_out[i].err \in DecryptErrors
                /\ i = Len(dec_out)
                /\ dec_state = "Closed")
    /\ [](dec_done => dec_state = "Closed")
    /\ [](dec_state = "Closed" /\ ~dec_done => ENABLED DecPollClosed)
    /\ [][dec_state = "Closed" =>
            /\ dec_state' = "Closed"
            /\ dec_out' = dec_out
            /\ dec_count' = dec_count
            /\ dec_done' \in {dec_done, TRUE}]_vars

\* a payload was yielded, then the body of the second packet failed to
\* unbox; the source has ended and the bytes after it stay unread
C26_Witness ==
    /\ Len(dec_out) = 2
    /\ dec_out[1].ok
    /\ dec_out[2] = Err("UnboxBody")
    /\ dec_done
    /\ wire # <<>>

(***************************************************************************)
(* Properties of a reader that ends without a goodbye                     *)
(***************************************************************************)
\* the decryptor has read whole packets and nothing after them
AtPacketBoundary ==
    \E m \in 0..Len(enc_chunks) : dec_count = PacketsSize(Take(enc_chunks, m))

\* the decryptor has read every packet and a goodbye the encryptor sealed
GoodbyeConsumed ==
    /\ Consumed = Len(enc_chunks)
    /\ dec_count = PacketsSize(enc_chunks) + BOXED_HEADER_SIZE
    /\ \E j \in 1..Len(seals) : seals[j].plain = GOODBYE_PACKET

\* C40: the source ends without an error item only after a goodbye has been
\* opened; a reader that ends at a packet boundary (also before the first
\* byte) without a goodbye makes Err(Io(UnexpectedEof)) the last item.
C40_EofWithoutGoodbye ==
    /\ (dec_done /\ NoErrorItem) => GoodbyeConsumed
    /\ (dec_state = "Closed" /\ AtPacketBoundary) =>
          /\ dec_out # <<>>
          /\ dec_out[Len(dec_out)] = Err("Io(UnexpectedEof)")
          /\ \A i \in 1..(Len(dec_out) - 1) : dec_out[i] = Ok(enc_chunks[i])
          /\ wire = <<>>
          /\ wire_closed

\* the reader has ended right after the first packet
C40_Witness ==
    /\ Len(enc_chunks) >= 1
    /\ dec_count = PacketsSize(Take(enc_chunks, 1))
    /\ dec_out = <<Ok(enc_chunks[1]), Err("Io(UnexpectedEof)")>>
    /\ dec_done

\* the reader has ended before the first byte
C40_EofAtStart ==
    /\ dec_count = 0
    /\ dec_out = <<Err("Io(UnexpectedEof)")>>
    /\ dec_done

(***************************************************************************)
(* Properties of the packet codec                                          *)
(***************************************************************************)
\* the request number in the header of the bytes built or received
WrittenNumber == get_i32(SubSeq(pk_raw, Header_SIZE - 3, Header_SIZE))

\* |r| as a u32
AbsU32(r) ==
    IF r = i32_MIN THEN U32(32768, 0)
    ELSE LET a == IF r < 0 THEN 0 - r ELSE r IN U32(a \div 65536, a % 65536)

\* C31: for every packet p that can be constructed, parsing the header and
\* the body that build(p) produces yields a packet equal to p.
C31_RoundTrip ==
    /\ pk_pc # "panicked"
    /\ pk_pc = "parsed" => pk_result = Parsed(pk_packet)

\* The round trip of the packets whose number is a positive i32.
C31_RoundTripOfPositiveI32 ==
    IsPositiveI32(pk_packet.number) =>
        /\ pk_pc # "panicked"
        /\ pk_pc = "parsed" => pk_result = Parsed(pk_packet)

\* a stream error whose strings need escapes has made the round trip
C31_PositiveI32Witness ==
    /\ pk_pc = "parsed"
    /\ pk_packet = Packet("Request", "StreamError", U32(32767, 65535),
                          NameMessage(<<97, 34, 92, 98>>, <<97>>))
    /\ pk_result = Parsed(pk_packet)

\* C32: a header with request number r # 0 (i32::MIN included) is parsed as
\* a Request with number r for r > 0 and as a Response with number |r| for
\* r < 0; a packet with a number m of the client's counter is built with
\* +m for a Request and -m for a Response and is parsed back as what it was.
C32_SignConvention ==
    /\ pk_pc = "parsed_received" =>
          /\ pk_result.res # "Panic"
          /\ pk_result.res = "Ok" =>
                /\ pk_result.packet.side =
                      (IF WrittenNumber > 0 THEN "Request" ELSE "Response")
                /\ pk_result.packet.number = AbsU32(WrittenNumber)
    /\ pk_packet.number # U32(0, 0) =>
          /\ pk_pc # "panicked"
          /\ pk_pc \in {"built", "parsed"} =>
                /\ IsPositiveI32(pk_packet.number)
                /\ WrittenNumber =
                      (IF pk_packet.side = "Request" THEN 1 ELSE -1)
                         * (pk_packet.number.hi * 65536 + pk_packet.number.lo)
          /\ (pk_pc = "parsed" /\ pk_result.res = "Ok") =>
                pk_result.packet.side = pk_packet.side

\* The sign convention for the request numbers other than i32::MIN and the
\* packet numbers that are positive i32.
C32_WithinPositiveI32 ==
    /\ (pk_pc = "parsed_received" /\ WrittenNumber # i32_MIN) =>
          /\ pk_result.res # "Panic"
          /\ pk_result.res = "Ok" =>
                /\ pk_result.packet.side =
                      (IF WrittenNumber > 0 THEN "Request" ELSE "Response")
                /\ pk_result.packet.number = AbsU32(WrittenNumber)
    /\ IsPositiveI32(pk_packet.number) =>
          /\ pk_pc # "panicked"
          /\ pk_pc \in {"built", "parsed"} =>
                WrittenNumber =
                    (IF pk_packet.side = "Request" THEN 1 ELSE -1)
                       * (pk_packet.number.hi * 65536 + pk_packet.number.lo)
          /\ (pk_pc = "parsed" /\ pk_result.res = "Ok") =>
                pk_result.packet.side = pk_packet.side

\* a response with number 256 has been received and parsed
C32_WithinWitness ==
    /\ pk_pc = "parsed_received"
    /\ WrittenNumber = -256
    /\ pk_result.res = "Ok"
    /\ pk_result.packet.side = "Response"
    /\ pk_result.packet.number = U32(0, 256)

\* a request with number 2^31 has been built and parsed as a response
C32_RequestParsedAsResponse ==
    /\ pk_pc = "parsed"
    /\ pk_packet.side = "Request"
    /\ pk_packet.number = U32(32768, 0)
    /\ WrittenNumber = i32_MIN
    /\ pk_result.res = "Ok"
    /\ pk_result.packet.side = "Response"

\* Packet::parse of a header with request number i32::MIN has panicked
C32_ParsePanicked ==
    /\ pk_pc = "parsed_received"
    /\ WrittenNumber = i32_MIN
    /\ pk_result.res = "Panic"

(***************************************************************************)
(* Properties of the framing of a push                                     *)
(***************************************************************************)
RECURSIVE BodyLens_of(_, _)
\* The lengths of the bodies of the packets that bytes holds, read as the
\* receiver reads them: a boxed header opened with nonce, its body skipped.
\* <<-1>> stands for bytes that are no packet.
BodyLens_of(bytes, nonce) ==
    IF bytes = <<>> THEN <<>>
    ELSE IF Len(bytes) < BOXED_HEADER_SIZE THEN <<-1>>
    ELSE LET header == decrypt_header(nonce, Take(bytes, BOXED_HEADER_SIZE))
         IN  IF header.res # "packet"
                \/ Len(bytes) < BOXED_HEADER_SIZE + header.len
             THEN <<-1>>
             ELSE <<header.len>>
                    \o BodyLens_of(Drop(bytes, BOXED_HEADER_SIZE + header.len),
                                   nonce_increment_be(header.nonce))

\* start_send has been called in this step
Pushed == enc_sends' = enc_sends + 1

\* the length of the vector pushed in this step
PushedLen == Len(sent') - Len(sent)

\* what start_send has put into the buffer in this step
PushedPackets == BodyLens_of(enc_buffer', enc_nonce)

\* C34: every push, whatever its length, puts at least one packet into the
\* buffer; a push of L > 0 bytes puts ceil(L / 4096) packets, each with a
\* body of at most 4096 bytes.
C34_OneOrMorePackets ==
    [][Pushed =>
          /\ Len(PushedPackets) >= 1
          /\ PushedLen > 0 =>
                Len(PushedPackets)
                    = (PushedLen + MAX_PACKET_SIZE_BYTES - 1) \div MAX_PACKET_SIZE_BYTES
          /\ \A i \in 1..Len(PushedPackets) :
                PushedPackets[i] \in 0..MAX_PACKET_SIZE_BYTES]_vars

\* C34, amended: a push of L > 0 bytes puts ceil(L / 4096) packets into the
\* buffer, each with a body of 1 to 4096 bytes; a push of an empty vector
\* puts nothing into the buffer and leaves the nonce alone.
C34_PacketsOfPush ==
    [][Pushed =>
          /\ Len(PushedPackets)
                = (PushedLen + MAX_PACKET_SIZE_BYTES - 1) \div MAX_PACKET_SIZE_BYTES
          /\ \A i \in 1..Len(PushedPackets) :
                PushedPackets[i] \in 1..MAX_PACKET_SIZE_BYTES
          /\ PushedLen = 0 => enc_buffer' = <<>> /\ enc_nonce' = enc_nonce]_vars

\* a push of 4097 bytes has put two packets into the buffer
C34_Witness ==
    /\ enc_pc = "send"
    /\ enc_sends = 1
    /\ Len(sent) = MAX_PACKET_SIZE_BYTES + 1
    /\ BodyLens_of(enc_buffer, dec_nonce) = <<MAX_PACKET_SIZE_BYTES, 1>>

\* an empty vector has been pushed and nothing is in the buffer
C34_EmptyPush ==
    /\ enc_pc = "send"
    /\ enc_sends = 1
    /\ sent = <<>>
    /\ enc_buffer = <<>>
    /\ wire = <<>>

(***************************************************************************)
(* Properties of closing the Encrypt sink.                                 *)
(***************************************************************************)
\* poll_close has written the whole goodbye packet: close() is under way
\* and the buffer, which poll_close had filled with the goodbye, is empty
GoodbyeWritten == enc_pc = "close" /\ enc_buffer = <<>>

\* C25: once close() has written the goodbye packet, which it does after
\* the data of all earlier sends, nothing more is put into the buffer or
\* written to the writer, however often writer.poll_close returns Pending
\* and poll_close is polled again.
C25_OneGoodbye ==
    [][GoodbyeWritten =>
          /\ enc_buffer' = <<>>
          /\ \E n \in 0..Len(wire) : wire' = Drop(wire, n)]_vars

(***************************************************************************)
(* Properties of send_async and the pending requests                       *)
(***************************************************************************)
\* send_async has returned Ok(response) or Err(AsyncRequestError::Send)
SendAsyncReturned ==
    /\ call_result.kind = "async"
    /\ call_result.result \in {"Ok", "AsyncRequestError::Send"}

\* C38: whenever send_async has returned, with a response or with
\* AsyncRequestError::Send, pending_async_requests holds no entry for the
\* number of the call.
C38_NoEntryAfterReturn ==
    SendAsyncReturned => call_result.number \notin DOMAIN pending_async_requests

\* The part of C38 for a call that returns a response.
C38_NoEntryAfterResponse ==
    (call_result.kind = "async" /\ call_result.result = "Ok") =>
        call_result.number \notin DOMAIN pending_async_requests

\* send_async has returned the response for request 1
C38_ResponseWitness ==
    /\ call_result = Returned(1, "async", "Ok")
    /\ Requested(1)
    /\ reader_pc = "running"

\* send_async has returned AsyncRequestError::Send and its entry is there
C38_EntryAfterSendError ==
    /\ call_result = Returned(1, "async", "AsyncRequestError::Send")
    /\ 1 \in DOMAIN pending_async_requests
    /\ chans[pending_async_requests[1]].tx

\* C39: when the response stream has ended and the reader task is done, a
\* send_async call that still waits for its response is released: its
\* one-shot is completed or its sender is dropped.
C39_ReleasedAtEnd ==
    (reader_pc = "done" /\ caller.pc = "async_wait") =>
        \/ chans[caller.chan].items # <<>>
        \/ ~chans[caller.chan].tx

\* The entry of a call that waits is in the table, with its sender, as long
\* as no response for it has been consumed, also after the reader is done.
C39_SenderKept ==
    (caller.pc = "async_wait" /\ chans[caller.chan].items = <<>>) =>
        /\ caller.number \in DOMAIN pending_async_requests
        /\ pending_async_requests[caller.number] = caller.chan
        /\ chans[caller.chan].tx

\* the reader is done and the call for request 1 waits
C39_WaitsAfterEnd ==
    /\ reader_pc = "done"
    /\ caller = [pc |-> "async_wait", number |-> 1, chan |-> 1]
    /\ chans[1].tx
    /\ chans[1].items = <<>>

(***************************************************************************)
(* Properties of a stream request that does not parse.                     *)
(***************************************************************************)

\* the request of number n handled in this step is a Data packet for a
\* number without a stream whose body is no JSON stream request
UnparsedStreamRequest(n) ==
    /\ Handles(n)
    /\ Handled(n).type = "Stream"
    /\ Handled(n).message.kind = "Data"
    /\ n \notin DOMAIN streams
    /\ ~StreamRequest_parses(Handled(n).message.body)

\* C37: a Data packet for an id without a stream whose body does not parse
\* as a JSON stream request touches that id only: handling it leaves
\* server::run running and every stream of the dispatcher as it is, so that
\* the requests that come after it are still handled.
C37_DispatcherKeepsRunning ==
    [][\A n \in 1..MaxIds :
          UnparsedStreamRequest(n) =>
              /\ srv_pc' = "running"
              /\ streams' = streams
              /\ handles' = handles]_vars

\* server::run has returned the error of decode_json while a stream of
\* another number was open: the stream is gone with the dispatcher.
C37_RunFailed ==
    /\ srv_pc = "failed"
    /\ streams = EmptyMap
    /\ \E n \in 1..MaxIds : \E k \in 1..Len(received[n]) :
          /\ received[n][k].type = "Stream"
          /\ received[n][k].message.kind = "Data"
          /\ StreamRequest_parses(received[n][k].message.body)
          /\ \A j \in k + 1..Len(received[n]) : received[n][j].type = "Stream"
                                               /\ ~is_end(received[n][j].message)

(***************************************************************************)
(* Properties of the client's request counter.                             *)
(***************************************************************************)

\* C35: the request counter starts at 1 and only grows: the numbers the
\* send_async and start_stream calls of one client take are pairwise
\* distinct and increasing, each is a positive i32 (never 0), none is taken
\* while an entry for it is still in pending_async_requests or streams, and
\* no call fails on the counter.
C35_FreshNumbers ==
    /\ cnt_pc = "ready"
    /\ \A i \in 1..Len(cnt_issued) :
          /\ IsPositiveI32(cnt_issued[i].number)
          /\ ~cnt_issued[i].in_use
          /\ \A j \in i + 1..Len(cnt_issued) :
                u32_lt(cnt_issued[i].number, cnt_issued[j].number)

\* The same for the first 2^31 - 1 calls of a client, that is as long as the
\* counter has not gone beyond i32::MAX + 1.
C35_FreshUpToI32Max ==
    (/\ cnt_wraps = 0
     /\ (cnt_next.hi < 32768 \/ cnt_next = U32(32768, 0))) =>
        /\ cnt_pc = "ready"
        /\ \A i \in 1..Len(cnt_issued) :
              /\ IsPositiveI32(cnt_issued[i].number)
              /\ ~cnt_issued[i].in_use
              /\ u32_lt(cnt_issued[i].number, cnt_next)
              /\ \A j \in i + 1..Len(cnt_issued) :
                    u32_lt(cnt_issued[i].number, cnt_issued[j].number)

\* The first call has taken 1, and after 2^31 - 3 further calls a call has
\* taken i32::MAX, while the entry of the first is still there.
C35_UpToI32MaxWitness ==
    /\ cnt_wraps = 0
    /\ cnt_next = U32(32768, 0)
    /\ Len(cnt_issued) >= 2
    /\ cnt_issued[1].number = U32(0, 1)
    /\ cnt_issued[Len(cnt_issued)].number = U32(32767, 65535)
    /\ U32(0, 1) \in cnt_pending

\* A call has taken 2^31, which is no positive i32.
C35_NumberAboveI32Max ==
    \E i \in 1..Len(cnt_issued) : cnt_issued[i].number = U32(32768, 0)

\* After u32::MAX the counter has wrapped: a call has taken 0, and the next
\* one has taken 1 again while the entry of the first call was still there.
C35_NumberReused ==
    /\ cnt_wraps = 1
    /\ \E i \in 1..Len(cnt_issued) : cnt_issued[i].number = U32(0, 0)
    /\ \E i \in 1..Len(cnt_issued) :
          cnt_issued[i].number = U32(0, 1) /\ cnt_issued[i].in_use

\* In a build with overflow checks the call that takes u32::MAX has
\* panicked.
C35_CounterPanicked ==
    cnt_pc = "panicked" /\ cnt_next = U32(65535, 65535)

====
